---- MODULE Spec2Model ----
(***************************************************************************)
(* Vector similarity search core of sergaym/stackai: the three index       *)
(* classes of backend/app/indexes (BruteForceIndex, LSHIndex, HNSWIndex)   *)
(* behind the VectorIndexBase interface.                                   *)
(*                                                                         *)
(* Numbers.  Vector components are fixed-point integers in units of        *)
(* 1/Scale, so <<5, 0>> is the unit vector (1, 0) and <<3, 4>> the unit    *)
(* vector (0.6, 0.8).  Similarities are integers in units of 1/Scale^2,    *)
(* so 25 is similarity 1.0 and 0 is similarity 0.0.  All inputs are        *)
(* chosen with integral norms, so normalisation and cosine are exact.      *)
(***************************************************************************)
EXTENDS Integers, Sequences, FiniteSets, TLC

\* ------------------------------------------------------------------ bounds

\* Number of distinct chunk ids the callers use.
NumIds == 2

\* Largest k a search is called with.
MaxK == 2

\* Guard on the size counter (re-adds make it grow without bound).
MaxSize == 3

\* Number of random.random() draws available before the process-wide
\* generator has to be reseeded.
MaxDraws == 6

\* Number of libraries the services are called with.
NumLibs == 2

\* Number of chunk ids the services are called with.
NumChunks == 1

\* An instance of the registry takes an add only while its size is below this.
MaxRegistrySize == 1

\* Guard on the size counter of the instance that takes re-adds.
MaxReaddSize == 6

\* Guard on the size counter of the instance under churn: it takes adds
\* below it and removes from it on.
MaxChurnSize == 4

\* Number of adds each of the instances compared for determinism takes.
NumTwinAdds == 2

\* Number of tasks that call one index instance concurrently.
NumTasks == 2

\* Number of libraries the store can hold when the process starts.
NumStoredLibs == 101

\* Fixed-point unit: a component c stands for c / Scale.
Scale == 5

Ids == 1..NumIds

None == 0

\* ------------------------------------------------------------ kernels

\* Integer square root (exact on the inputs used).
RECURSIVE IsqrtFrom(_, _)
IsqrtFrom(n, r) == IF (r + 1) * (r + 1) > n THEN r ELSE IsqrtFrom(n, r + 1)

Isqrt(n) == IsqrtFrom(n, 0)

Dot(a, b) == IF Len(a) = 0 THEN 0
             ELSE LET S[i \in 0..Len(a)] ==
                        IF i = 0 THEN 0 ELSE S[i - 1] + a[i] * b[i]
                  IN S[Len(a)]

\* np.linalg.norm
Norm(v) == Isqrt(Dot(v, v))

\* np.allclose(vector, 0)
AllCloseZero(v) == \A i \in 1..Len(v) : v[i] = 0

\* VectorIndexBase.normalize_vector
normalize_vector(v) ==
    LET norm == Norm(v)
    IN IF norm = 0 THEN v
       ELSE [i \in 1..Len(v) |-> (v[i] * Scale) \div norm]

\* VectorIndexBase.cosine_similarity, in units of 1/Scale^2
cosine_similarity(a, b) ==
    LET norm_a == Norm(a)
        norm_b == Norm(b)
    IN IF norm_a = 0 \/ norm_b = 0 THEN 0
       ELSE (Dot(a, b) * Scale * Scale) \div (norm_a * norm_b)

\* ------------------------------------------------- dicts and sequences

\* An empty dict.
EmptyMap == [x \in {} |-> 0]

\* d[k] = v
Put(d, k, v) == [x \in DOMAIN d \cup {k} |-> IF x = k THEN v ELSE d[x]]

\* del d[k]
Del(d, k) == [x \in DOMAIN d \ {k} |-> d[x]]

Range(s) == {s[i] : i \in 1..Len(s)}

\* Key order of a dict after d[k] = v: an existing key keeps its place, a new
\* key goes last.
PutKey(keys, k) == IF k \in Range(keys) THEN keys ELSE Append(keys, k)

\* Key order of a dict after del d[k].
DelKey(keys, k) == SelectSeq(keys, LAMBDA x : x # k)

\* s[:n]
Take(s, n) == IF n >= Len(s) THEN s ELSE SubSeq(s, 1, n)

Min(a, b) == IF a <= b THEN a ELSE b

\* s without its i-th element.
DropAt(s, i) == SubSeq(s, 1, i - 1) \o SubSeq(s, i + 1, Len(s))

\* list.sort(key=lambda x: x[1], reverse=True) on a list of <<chunk_id, similarity>>:
\* descending by similarity, stable (equal similarities keep their order).
RECURSIVE SortBySimilarityDesc(_)
SortBySimilarityDesc(s) ==
    IF Len(s) = 0 THEN <<>>
    ELSE LET best == CHOOSE i \in 1..Len(s) :
                        /\ \A j \in 1..Len(s) : s[j][2] <= s[i][2]
                        /\ \A j \in 1..(i - 1) : s[j][2] < s[i][2]
         IN <<s[best]>> \o SortBySimilarityDesc(DropAt(s, best))

\* Every order in which a set can be iterated.
RECURSIVE Orders(_)
Orders(S) ==
    IF S = {} THEN {<<>>}
    ELSE UNION {{<<x>> \o t : t \in Orders(S \ {x})} : x \in S}

\* ------------------------------------------------------- index instances

\* The fields of the three index classes in one record shape; a class leaves
\* the fields it does not have at their empty values.
\*   keys        insertion order of the vectors dict
\*   metadata    the keys of the metadata dict (its values are never read)
\*   hash_tables table -> (bucket key -> set of chunk ids)
\*   connections chunk id -> (level -> set of chunk ids)
VectorIndexBase(alg, dimension) ==
    [alg |-> alg, dimension |-> dimension, size |-> 0, built |-> FALSE,
     keys |-> <<>>, vectors |-> EmptyMap, metadata |-> {},
     num_tables |-> 0, hash_length |-> 0, hash_tables |-> <<>>,
     max_connections |-> 0, max_connections_0 |-> 0,
     levels |-> EmptyMap, connections |-> EmptyMap, entry_point |-> None]

\* What a call returned: ret.raised for an exception, ret.removed for
\* remove_vector's boolean, ret.results for search's list of
\* <<chunk_id, similarity>>.
Ret(op, id, vec, k, raised, removed, results) ==
    [op |-> op, id |-> id, vec |-> vec, k |-> k, raised |-> raised,
     removed |-> removed, results |-> results]

\* ------------------------------------------------------ BruteForceIndex

BruteForceIndex(dimension) == VectorIndexBase("brute_force", dimension)

\* BruteForceIndex.add_vector: the instance after the call and whether the
\* call raised ValueError.
BFAddVector(ix, chunk_id, vector) ==
    IF Len(vector) # ix.dimension THEN [ix |-> ix, raised |-> TRUE]
    ELSE
    LET normalized_vector == IF AllCloseZero(vector) THEN vector
                             ELSE normalize_vector(vector)
        is_new_vector == chunk_id \notin DOMAIN ix.vectors
    IN [ix |-> [ix EXCEPT !.vectors = Put(ix.vectors, chunk_id, normalized_vector),
                          !.keys = PutKey(ix.keys, chunk_id),
                          !.metadata = ix.metadata \cup {chunk_id},
                          !.size = IF is_new_vector THEN ix.size + 1 ELSE ix.size],
        raised |-> FALSE]

\* remove_vector without its "chunk_id not in self.vectors" early return.
BFRemoveVectorUnchecked(ix, chunk_id) ==
    [ix |-> [ix EXCEPT !.vectors = Del(ix.vectors, chunk_id),
                       !.keys = DelKey(ix.keys, chunk_id),
                       !.metadata = ix.metadata \ {chunk_id},
                       !.size = ix.size - 1],
     removed |-> TRUE]

\* BruteForceIndex.remove_vector: the instance after the call and the
\* boolean returned.
BFRemoveVector(ix, chunk_id) ==
    IF chunk_id \notin DOMAIN ix.vectors THEN [ix |-> ix, removed |-> FALSE]
    ELSE [ix |-> [ix EXCEPT !.vectors = Del(ix.vectors, chunk_id),
                            !.keys = DelKey(ix.keys, chunk_id),
                            !.metadata = ix.metadata \ {chunk_id},
                            !.size = ix.size - 1],
          removed |-> TRUE]

\* search without its similarities.sort(...).
BFSearchUnsorted(ix, query_vector, k) ==
    IF DOMAIN ix.vectors = {} THEN {<<>>}
    ELSE LET kk == Min(k, Len(ix.keys))
             normalized_query == IF AllCloseZero(query_vector) THEN query_vector
                                 ELSE normalize_vector(query_vector)
             similarities ==
                 [i \in 1..Len(ix.keys) |->
                     <<ix.keys[i],
                       cosine_similarity(normalized_query, ix.vectors[ix.keys[i]])>>]
         IN {Take(similarities, kk)}

\* BruteForceIndex.search: the lists it can return (exactly one).
BFSearch(ix, query_vector, k) ==
    IF DOMAIN ix.vectors = {} THEN {<<>>}
    ELSE LET kk == Min(k, Len(ix.keys))
             normalized_query == IF AllCloseZero(query_vector) THEN query_vector
                                 ELSE normalize_vector(query_vector)
             similarities ==
                 [i \in 1..Len(ix.keys) |->
                     <<ix.keys[i],
                       cosine_similarity(normalized_query, ix.vectors[ix.keys[i]])>>]
         IN {Take(SortBySimilarityDesc(similarities), kk)}

\* ------------------------------------------------------------- LSHIndex

\* LSHHashFamily.random_vectors for seed 42 + t, t = 0, 1, 2: the rows that
\* np.random.seed(seed); np.random.randn(hash_length, dimension) draws, as
\* integers in units of 1/100 (only the sign of a projection is used, so the
\* unit-norm scaling of the rows is not repeated here).
random_vectors ==
    << << <<50, -14>>, <<65, 152>>, <<-23, -23>> >>,
       << <<26, -91>>, <<-38, -53>>, <<86, -41>> >>,
       << <<-75, 132>>, <<125, -160>>, <<-147, -172>> >> >>

\* hashlib.md5(bits).hexdigest()[:8]: the bucket key of a bit string, here the
\* number the bits spell (equal bit strings give equal keys, different ones
\* different keys).
RECURSIVE md5_hexdigest8(_)
md5_hexdigest8(bits) ==
    IF Len(bits) = 0 THEN 0
    ELSE 2 * md5_hexdigest8(SubSeq(bits, 1, Len(bits) - 1)) + bits[Len(bits)]

\* LSHHashFamily.hash_vector of table t (1-based).
hash_vector(ix, t, vector) ==
    LET binary_hash == [i \in 1..ix.hash_length |->
                          IF Dot(random_vectors[t][i], vector) >= 0 THEN 1 ELSE 0]
    IN md5_hexdigest8(binary_hash)

LSHIndex(dimension, num_tables, hash_length) ==
    [VectorIndexBase("lsh", dimension) EXCEPT
        !.num_tables = num_tables, !.hash_length = hash_length,
        !.hash_tables = [t \in 1..num_tables |-> EmptyMap]]

\* self.hash_tables[table_idx][hash_value].add(chunk_id) on a defaultdict(set)
BucketAdd(table, hash_value, chunk_id) ==
    Put(table, hash_value,
        (IF hash_value \in DOMAIN table THEN table[hash_value] ELSE {})
            \cup {chunk_id})

\* The discard and the clean-up of an empty bucket in remove_vector.
BucketDiscard(table, hash_value, chunk_id) ==
    IF hash_value \notin DOMAIN table THEN table
    ELSE IF table[hash_value] \ {chunk_id} = {} THEN Del(table, hash_value)
    ELSE Put(table, hash_value, table[hash_value] \ {chunk_id})

\* LSHIndex.add_vector
LSHAddVector(ix, chunk_id, vector) ==
    IF Len(vector) # ix.dimension THEN [ix |-> ix, raised |-> TRUE]
    ELSE
    LET normalized_vector == normalize_vector(vector)
    IN [ix |-> [ix EXCEPT
                  !.vectors = Put(ix.vectors, chunk_id, normalized_vector),
                  !.keys = PutKey(ix.keys, chunk_id),
                  !.metadata = ix.metadata \cup {chunk_id},
                  !.hash_tables =
                      [t \in 1..ix.num_tables |->
                          BucketAdd(ix.hash_tables[t],
                                    hash_vector(ix, t, normalized_vector),
                                    chunk_id)],
                  !.size = ix.size + 1],
        raised |-> FALSE]

\* LSHIndex.remove_vector
LSHRemoveVector(ix, chunk_id) ==
    IF chunk_id \notin DOMAIN ix.vectors THEN [ix |-> ix, removed |-> FALSE]
    ELSE
    LET vector == ix.vectors[chunk_id]
    IN [ix |-> [ix EXCEPT
                  !.hash_tables =
                      [t \in 1..ix.num_tables |->
                          BucketDiscard(ix.hash_tables[t],
                                        hash_vector(ix, t, vector), chunk_id)],
                  !.vectors = Del(ix.vectors, chunk_id),
                  !.keys = DelKey(ix.keys, chunk_id),
                  !.metadata = ix.metadata \ {chunk_id},
                  !.size = ix.size - 1],
          removed |-> TRUE]

\* The candidate set of LSHIndex.search: the union of the query's buckets,
\* or every key when that union is empty.
LSHCandidates(ix, normalized_query) ==
    LET hit == UNION {LET h == hash_vector(ix, t, normalized_query)
                      IN IF h \in DOMAIN ix.hash_tables[t]
                         THEN ix.hash_tables[t][h] ELSE {} :
                      t \in 1..ix.num_tables}
    IN IF hit = {} THEN DOMAIN ix.vectors ELSE hit

\* <<chunk_id, similarity>> for the stored ids of a list, in its order.
Scored(ix, normalized_query, ids) ==
    LET live == SelectSeq(ids, LAMBDA c : c \in DOMAIN ix.vectors)
    IN [i \in 1..Len(live) |->
          <<live[i], cosine_similarity(normalized_query, ix.vectors[live[i]])>>]

\* LSHIndex.search without its final sort.
LSHSearchUnsorted(ix, query_vector, k) ==
    IF DOMAIN ix.vectors = {} THEN {<<>>}
    ELSE LET normalized_query == normalize_vector(query_vector)
         IN {Take(Scored(ix, normalized_query, o), k) :
                o \in Orders(LSHCandidates(ix, normalized_query))}

\* LSHIndex.search: the lists it can return, one for each order in which the
\* candidate set is iterated.
LSHSearch(ix, query_vector, k) ==
    IF DOMAIN ix.vectors = {} THEN {<<>>}
    ELSE LET normalized_query == normalize_vector(query_vector)
         IN {Take(SortBySimilarityDesc(Scored(ix, normalized_query, o)), k) :
                o \in Orders(LSHCandidates(ix, normalized_query))}

\* ------------------------------------------------------------ HNSWIndex

\* The process-wide generator of the random module after random.seed(42):
\* whether the n-th random.random() is below 0.5.
random_below_half ==
    <<FALSE, TRUE, TRUE, TRUE, FALSE, FALSE, FALSE, TRUE, TRUE, TRUE,
      TRUE, FALSE, TRUE, TRUE, FALSE, FALSE, TRUE, FALSE, FALSE, TRUE>>

\* The cap on levels in _generate_level.
LevelCap == 8

\* HNSWIndex._generate_level from generator position pos: the level and the
\* position after it.  Each test of the loop draws once, also the last one.
\* A draw past MaxDraws leaves the position above MaxDraws.
RECURSIVE generate_level_from(_, _)
generate_level_from(level, pos) ==
    IF pos >= MaxDraws THEN [level |-> level, rng |-> MaxDraws + 1]
    ELSE IF random_below_half[pos + 1] /\ level < LevelCap
         THEN generate_level_from(level + 1, pos + 1)
         ELSE [level |-> level, rng |-> pos + 1]

_generate_level(pos) == generate_level_from(0, pos)

HNSWIndex(dimension, max_connections, max_connections_0) ==
    [VectorIndexBase("hnsw", dimension) EXCEPT
        !.max_connections = max_connections,
        !.max_connections_0 = max_connections_0]

MaxConn(ix, level) ==
    IF level = 0 THEN ix.max_connections_0 ELSE ix.max_connections

\* The neighbours _simple_insert wires chunk_id to at a level: the nodes of
\* that level other than chunk_id, sorted by (similarity, id) descending, cut
\* to max_conn.
RECURSIVE SortTuplesDesc(_, _)
SortTuplesDesc(S, sim) ==
    IF S = {} THEN <<>>
    ELSE LET top == CHOOSE x \in S :
                      \A y \in S : sim[y] < sim[x] \/ (sim[y] = sim[x] /\ y <= x)
         IN <<top>> \o SortTuplesDesc(S \ {top}, sim)

InsertNeighbours(ix, chunk_id, vector, level) ==
    LET level_nodes == {nid \in DOMAIN ix.levels :
                          ix.levels[nid] >= level /\ nid # chunk_id}
        sim == [nid \in level_nodes |-> cosine_similarity(vector, ix.vectors[nid])]
    IN Take(SortTuplesDesc(level_nodes, sim), MaxConn(ix, level))

\* A _find_worst_neighbor that finds nobody to prune.
_find_no_neighbor(ix, node_id, level) == {}

\* HNSWIndex._find_worst_neighbor: the neighbours it can return (the first
\* least similar stored neighbour in the set's iteration order), {} for None.
_find_worst_neighbor(ix, node_id, level) ==
    IF node_id \notin DOMAIN ix.connections
       \/ level \notin DOMAIN ix.connections[node_id] THEN {}
    ELSE LET live == ix.connections[node_id][level] \cap DOMAIN ix.vectors
             sim(n) == cosine_similarity(ix.vectors[node_id], ix.vectors[n])
         IN {w \in live : \A n \in live : sim(w) <= sim(n)}

\* connections[a][level].add(b)
ConnAdd(conn, a, level, b) ==
    [conn EXCEPT ![a][level] = @ \cup {b}]

\* connections[a][level].discard(b)
ConnDiscard(conn, a, level, b) ==
    [conn EXCEPT ![a][level] = @ \ {b}]

\* The body of _simple_insert's inner loop for the chosen neighbours still to
\* wire at one level: the outcomes [ix, raised].  The reverse discard of a
\* pruned edge raises KeyError when the pruned node has no set at that level.
RECURSIVE WireLevel(_, _, _, _)
WireLevel(ix, chunk_id, level, todo) ==
    IF Len(todo) = 0 THEN {[ix |-> ix, raised |-> FALSE]}
    ELSE
    LET neighbor_id == Head(todo)
        wired == [ix EXCEPT !.connections =
                    ConnAdd(ConnAdd(ix.connections, chunk_id, level, neighbor_id),
                            neighbor_id, level, chunk_id)]
        worst == _find_worst_neighbor(wired, neighbor_id, level)
    IN IF Cardinality(wired.connections[neighbor_id][level]) > MaxConn(ix, level)
          /\ worst # {}
       THEN UNION {
              LET half == [wired EXCEPT !.connections =
                             ConnDiscard(wired.connections, neighbor_id, level, w)]
              IN IF level \notin DOMAIN wired.connections[w]
                 THEN {[ix |-> half, raised |-> TRUE]}
                 ELSE WireLevel(
                        [half EXCEPT !.connections =
                            ConnDiscard(half.connections, w, level, neighbor_id)],
                        chunk_id, level, Tail(todo))
              : w \in worst}
       ELSE WireLevel(wired, chunk_id, level, Tail(todo))

\* HNSWIndex._simple_insert from a level on: the outcomes [ix, raised].
RECURSIVE _simple_insert(_, _, _, _, _)
_simple_insert(ix, chunk_id, vector, target_level, level) ==
    IF level > target_level
    THEN LET entry_level == IF ix.entry_point \in DOMAIN ix.levels
                            THEN ix.levels[ix.entry_point] ELSE 0
         IN {[ix |-> IF target_level > entry_level
                     THEN [ix EXCEPT !.entry_point = chunk_id] ELSE ix,
              raised |-> FALSE]}
    ELSE UNION {
           IF o.raised THEN {o}
           ELSE _simple_insert(o.ix, chunk_id, vector, target_level, level + 1)
           : o \in WireLevel(ix, chunk_id, level,
                             InsertNeighbours(ix, chunk_id, vector, level))}

\* HNSWIndex.add_vector with the generator at position pos: the outcomes
\* [ix, raised, rng].
\* The first half of HNSWIndex.add_vector, for a vector of the right length:
\* the vector, the level and the empty neighbour sets are stored.
HNSWStore(ix, chunk_id, normalized_vector, level) ==
    [ix EXCEPT
        !.vectors = Put(ix.vectors, chunk_id, normalized_vector),
        !.keys = PutKey(ix.keys, chunk_id),
        !.levels = Put(ix.levels, chunk_id, level),
        !.connections = Put(ix.connections, chunk_id, [i \in 0..level |-> {}])]

\* The second half of HNSWIndex.add_vector on what the first half stored:
\* the first node becomes the entry point, any other node is wired; the
\* outcomes [ix, raised].
HNSWConnect(stored, chunk_id, normalized_vector, level) ==
    IF stored.entry_point = None
    THEN {[ix |-> [stored EXCEPT !.entry_point = chunk_id,
                                 !.size = stored.size + 1],
           raised |-> FALSE]}
    ELSE {[ix |-> IF o.raised THEN o.ix
                  ELSE [o.ix EXCEPT !.size = o.ix.size + 1],
           raised |-> o.raised]
          : o \in _simple_insert(stored, chunk_id, normalized_vector, level, 0)}

\* HNSWIndex.add_vector: the outcomes [ix, raised, rng].
HNSWAddVector(ix, pos, chunk_id, vector) ==
    IF Len(vector) # ix.dimension
    THEN {[ix |-> ix, raised |-> TRUE, rng |-> pos]}
    ELSE
    LET normalized_vector == normalize_vector(vector)
        drawn == _generate_level(pos)
        stored == HNSWStore(ix, chunk_id, normalized_vector, drawn.level)
    IN {[ix |-> o.ix, raised |-> o.raised, rng |-> drawn.rng]
        : o \in HNSWConnect(stored, chunk_id, normalized_vector, drawn.level)}

\* The reverse edges remove_vector deletes: chunk_id leaves every level of
\* every node that one of chunk_id's own sets lists.
DropReverseEdges(ix, chunk_id) ==
    LET mine == IF chunk_id \in DOMAIN ix.connections
                THEN UNION {ix.connections[chunk_id][l] :
                              l \in DOMAIN ix.connections[chunk_id]}
                ELSE {}
    IN [n \in DOMAIN ix.connections |->
          IF n \in mine
          THEN [l \in DOMAIN ix.connections[n] |->
                  ix.connections[n][l] \ {chunk_id}]
          ELSE ix.connections[n]]

\* HNSWIndex.remove_vector
\* The first half of HNSWIndex.remove_vector, for a stored id: the
\* neighbours of chunk_id drop their edges to it.
HNSWUnlink(ix, chunk_id) ==
    [ix EXCEPT !.connections = DropReverseEdges(ix, chunk_id)]

\* The second half of HNSWIndex.remove_vector: the node is deleted, the
\* entry point is replaced and the size is counted down.
HNSWDelete(ix, chunk_id) ==
    LET keys == DelKey(ix.keys, chunk_id)
    IN [ix EXCEPT
          !.connections = Del(ix.connections, chunk_id),
          !.vectors = Del(ix.vectors, chunk_id),
          !.keys = keys,
          !.levels = Del(ix.levels, chunk_id),
          !.entry_point =
              IF chunk_id = ix.entry_point
              THEN (IF Len(keys) > 0 THEN keys[1] ELSE None)
              ELSE ix.entry_point,
          !.size = ix.size - 1]

\* HNSWIndex.remove_vector
HNSWRemoveVector(ix, chunk_id) ==
    IF chunk_id \notin DOMAIN ix.vectors THEN [ix |-> ix, removed |-> FALSE]
    ELSE [ix |-> HNSWDelete(HNSWUnlink(ix, chunk_id), chunk_id),
          removed |-> TRUE]

\* The neighbour set of node n at a level ({} when n has no such level).
Neighbours(ix, n, level) ==
    IF n \in DOMAIN ix.connections /\ level \in DOMAIN ix.connections[n]
    THEN ix.connections[n][level] ELSE {}

\* HNSWIndex._search_level_simple: the nodes the greedy walk can end on (it
\* moves to the first neighbour, in the set's iteration order, that is stored
\* and strictly more similar to the query).
RECURSIVE _search_level_simple(_, _, _, _)
_search_level_simple(ix, query, current, level) ==
    LET current_sim == cosine_similarity(query, ix.vectors[current])
        nbrs == IF current \in DOMAIN ix.connections
                   /\ level \in DOMAIN ix.connections[current]
                THEN ix.connections[current][level] ELSE {}
        better == {n \in nbrs :
                     /\ n \in DOMAIN ix.vectors
                     /\ cosine_similarity(query, ix.vectors[n]) > current_sim}
    IN IF better = {} THEN {current}
       ELSE UNION {_search_level_simple(ix, query, n, level) : n \in better}

\* The loop of search over the levels, from the entry point's level down to 0.
RECURSIVE GreedyDescent(_, _, _, _)
GreedyDescent(ix, query, starts, level) ==
    IF level < 0 THEN starts
    ELSE GreedyDescent(ix, query,
                       UNION {_search_level_simple(ix, query, c, level) : c \in starts},
                       level - 1)

\* The test of _search_level_simple for moving to a neighbour.
ImprovesOrTies(neighbor_sim, current_sim) == neighbor_sim >= current_sim

Improves(neighbor_sim, current_sim) == neighbor_sim > current_sim

\* HNSWIndex._search_level_simple with its moves counted: the nodes the walk
\* can end on within max_moves moves, and None if it can still be moving
\* after them.
RECURSIVE GreedyWalk(_, _, _, _, _)
GreedyWalk(ix, query, current, level, max_moves) ==
    LET current_sim == cosine_similarity(query, ix.vectors[current])
        better == {n \in Neighbours(ix, current, level) :
                     /\ n \in DOMAIN ix.vectors
                     /\ Improves(cosine_similarity(query, ix.vectors[n]),
                                 current_sim)}
    IN IF better = {} THEN {current}
       ELSE IF max_moves = 0 THEN {None}
       ELSE UNION {GreedyWalk(ix, query, n, level, max_moves - 1) : n \in better}

\* HNSWIndex._get_level_candidates: the candidate lists the breadth-first
\* expansion can return, one for each order in which the neighbour sets are
\* iterated.
RECURSIVE _get_level_candidates(_, _, _, _, _)
_get_level_candidates(ix, queue, visited, candidates, num_candidates) ==
    IF Len(queue) = 0 \/ Len(candidates) >= num_candidates THEN {candidates}
    ELSE LET node_id == Head(queue)
         IN IF node_id \in visited
            THEN _get_level_candidates(ix, Tail(queue), visited, candidates,
                                       num_candidates)
            ELSE LET seen == visited \cup {node_id}
                     nbrs == IF node_id \in DOMAIN ix.connections
                                /\ 0 \in DOMAIN ix.connections[node_id]
                             THEN ix.connections[node_id][0] \ seen ELSE {}
                 IN UNION {_get_level_candidates(ix, Tail(queue) \o o, seen,
                                                 Append(candidates, node_id),
                                                 num_candidates)
                           : o \in Orders(nbrs)}

\* HNSWIndex.search without its final slice.
HNSWSearchUncut(ix, query_vector, k) ==
    IF DOMAIN ix.vectors = {} \/ ix.entry_point = None THEN {<<>>}
    ELSE LET normalized_query == normalize_vector(query_vector)
             ends == GreedyDescent(ix, normalized_query, {ix.entry_point},
                                   ix.levels[ix.entry_point])
             candidates == UNION {_get_level_candidates(ix, <<c>>, {}, <<>>, k * 3)
                                    : c \in ends}
         IN {SortBySimilarityDesc(Scored(ix, normalized_query, c))
               : c \in candidates}

\* HNSWIndex.search: the lists it can return.
HNSWSearch(ix, query_vector, k) ==
    IF DOMAIN ix.vectors = {} \/ ix.entry_point = None THEN {<<>>}
    ELSE LET normalized_query == normalize_vector(query_vector)
             ends == GreedyDescent(ix, normalized_query, {ix.entry_point},
                                   ix.levels[ix.entry_point])
             candidates == UNION {_get_level_candidates(ix, <<c>>, {}, <<>>, k * 3)
                                    : c \in ends}
         IN {Take(SortBySimilarityDesc(Scored(ix, normalized_query, c)), k)
               : c \in candidates}

\* ----------------------------------------------------- the three classes

\* VectorIndexManager.add_vector: the outcomes [ix, raised, rng] of the
\* instance's add_vector.
add_vector(ix, pos, chunk_id, vector) ==
    CASE ix.alg = "hnsw" -> HNSWAddVector(ix, pos, chunk_id, vector)
      [] ix.alg = "lsh" ->
            LET o == LSHAddVector(ix, chunk_id, vector)
            IN {[ix |-> o.ix, raised |-> o.raised, rng |-> pos]}
      [] ix.alg = "brute_force" ->
            LET o == BFAddVector(ix, chunk_id, vector)
            IN {[ix |-> o.ix, raised |-> o.raised, rng |-> pos]}

\* VectorIndexManager.remove_vector: [ix, removed].
remove_vector(ix, chunk_id) ==
    CASE ix.alg = "hnsw" -> HNSWRemoveVector(ix, chunk_id)
      [] ix.alg = "lsh" -> LSHRemoveVector(ix, chunk_id)
      [] ix.alg = "brute_force" -> BFRemoveVector(ix, chunk_id)

\* VectorIndexManager.search: the lists the instance's search can return.
search(ix, query_vector, k) ==
    CASE ix.alg = "hnsw" -> HNSWSearch(ix, query_vector, k)
      [] ix.alg = "lsh" -> LSHSearch(ix, query_vector, k)
      [] ix.alg = "brute_force" -> BFSearch(ix, query_vector, k)

\* sum(f[x] for x in S)
RECURSIVE SumOver(_, _)
SumOver(f, S) ==
    IF S = {} THEN 0
    ELSE LET x == CHOOSE y \in S : TRUE IN f[x] + SumOver(f, S \ {x})

\* max(S) and min(S) of a non-empty set of numbers
MaxOf(S) == CHOOSE x \in S : \A y \in S : y <= x

MinOf(S) == CHOOSE x \in S : \A y \in S : x <= y

\* round(total / count, 2), in hundredths
Round2(total, count) == (200 * total + count) \div (2 * count)

\* HNSWIndex.get_index_stats
HNSWStats(ix) ==
    IF DOMAIN ix.vectors = {}
    THEN [algorithm |-> "HNSW", size |-> 0, built |-> ix.built,
          levels |-> 0, avg_connections |-> 0]
    ELSE LET level_values == {ix.levels[c] : c \in DOMAIN ix.levels}
             level_counts == [l \in level_values |->
                                Cardinality({c \in DOMAIN ix.levels :
                                               ix.levels[c] = l})]
             per_node == [c \in DOMAIN ix.connections |->
                            SumOver([l \in DOMAIN ix.connections[c] |->
                                       Cardinality(ix.connections[c][l])],
                                    DOMAIN ix.connections[c])]
             total_connections == SumOver(per_node, DOMAIN ix.connections)
         IN [algorithm |-> "HNSW", size |-> ix.size, built |-> ix.built,
             max_level |-> MaxOf(level_values),
             level_distribution |-> level_counts,
             avg_connections_per_node |->
                 Round2(total_connections, Cardinality(DOMAIN ix.vectors))]

\* LSHIndex.get_index_stats
LSHStats(ix) ==
    LET total_buckets == SumOver([t \in 1..ix.num_tables |->
                                    Cardinality(DOMAIN ix.hash_tables[t])],
                                 1..ix.num_tables)
        total_entries == SumOver([t \in 1..ix.num_tables |->
                                    SumOver([b \in DOMAIN ix.hash_tables[t] |->
                                               Cardinality(ix.hash_tables[t][b])],
                                            DOMAIN ix.hash_tables[t])],
                                 1..ix.num_tables)
    IN [algorithm |-> "LSH", size |-> ix.size, built |-> ix.built,
        num_tables |-> ix.num_tables, hash_length |-> ix.hash_length,
        total_buckets |-> total_buckets,
        avg_bucket_size |-> IF total_buckets > 0
                            THEN Round2(total_entries, total_buckets) ELSE 0]

\* BruteForceIndex.get_index_stats: the norms are in fixed-point units
BFStats(ix) ==
    LET stats == [algorithm |-> "Brute-Force", size |-> ix.size,
                  built |-> ix.built, dimension |-> ix.dimension]
        vector_norms == [c \in DOMAIN ix.vectors |-> Norm(ix.vectors[c])]
        norm_values == {vector_norms[c] : c \in DOMAIN ix.vectors}
    IN IF DOMAIN ix.vectors = {} THEN stats
       ELSE [algorithm |-> stats.algorithm, size |-> stats.size,
             built |-> stats.built, dimension |-> stats.dimension,
             avg_vector_norm |-> SumOver(vector_norms, DOMAIN ix.vectors)
                                    \div Cardinality(DOMAIN ix.vectors),
             min_vector_norm |-> MinOf(norm_values),
             max_vector_norm |-> MaxOf(norm_values)]

\* VectorIndexManager.get_index_stats: the instance's statistics (the
\* manager adds the index type and the dimension, which the instance holds).
get_index_stats(ix) ==
    CASE ix.alg = "hnsw" -> HNSWStats(ix)
      [] ix.alg = "lsh" -> LSHStats(ix)
      [] ix.alg = "brute_force" -> BFStats(ix)

\* ------------------------------------------------------------- the state

\* The configured dimension of every index (settings.embedding_dimension).
Dimension == 2

\* num_tables and hash_length the LSH instance is constructed with.
LshTables == 2

LshHashLength == 2

\* max_connections and max_connections_0 VectorIndexManager constructs an
\* HNSW instance with.
MaxConnections == 16

MaxConnections0 == 32

\* The vectors callers pass: unit vectors, a vector of norm 2, the zero
\* vector and a vector of the wrong length.
Vectors == {<<5, 0>>, <<0, 5>>, <<3, 4>>, <<0, 10>>, <<0, 0>>, <<5>>}

Queries == {v \in Vectors : Len(v) = Dimension}

\* ------------------------------------------------------- IndexService

\* The members of the IndexType enum, in its iteration order.
IndexTypes == <<"hnsw", "lsh", "brute_force">>

\* IndexService._default_index_type under the default configuration.
DefaultIndexType == "hnsw"

\* index_type=None in a call of IndexService.
NoIndexType == "none"

\* VectorIndexManager(dimension=settings.embedding_dimension, index_type):
\* the instance _create_index constructs.
VectorIndexManager(index_type) ==
    CASE index_type = "hnsw" ->
            HNSWIndex(Dimension, MaxConnections, MaxConnections0)
      [] index_type = "lsh" -> LSHIndex(Dimension, LshTables, LshHashLength)
      [] index_type = "brute_force" -> BruteForceIndex(Dimension)

\* The key f"{library_id}_{index_type.value}" of _library_indexes.
IndexKey(library_id, index_type) == <<library_id, index_type>>

\* The index types of the instances the registry reg holds for a library.
TypesOf(reg, library_id) ==
    {t \in Range(IndexTypes) : IndexKey(library_id, t) \in DOMAIN reg}

\* IndexService._get_or_create_index on s = [reg, rng]: a missing instance is
\* constructed, and constructing an HNSWIndex reseeds the shared generator.
_get_or_create_index(s, library_id, index_type) ==
    LET index_key == IndexKey(library_id, index_type)
    IN IF index_key \in DOMAIN s.reg THEN s
       ELSE [reg |-> Put(s.reg, index_key, VectorIndexManager(index_type)),
             rng |-> IF index_type = "hnsw" THEN 0 ELSE s.rng]

\* The loop of add_chunk over the index types still to do: the outcomes
\* [reg, rng, raised]; an exception leaves the loop with what was done so far.
RECURSIVE AddToIndexes(_, _, _, _, _)
AddToIndexes(s, types, library_id, chunk_id, vector) ==
    IF Len(types) = 0 THEN {[reg |-> s.reg, rng |-> s.rng, raised |-> FALSE]}
    ELSE LET index_key == IndexKey(library_id, Head(types))
             c == _get_or_create_index(s, library_id, Head(types))
         IN UNION {
              LET done == [reg |-> Put(c.reg, index_key, o.ix), rng |-> o.rng]
              IN IF o.raised
                 THEN {[reg |-> done.reg, rng |-> done.rng, raised |-> TRUE]}
                 ELSE AddToIndexes(done, Tail(types), library_id, chunk_id, vector)
              : o \in add_vector(c.reg[index_key], c.rng, chunk_id, vector)}

\* IndexService.add_chunk: the outcomes [reg, rng, value].
add_chunk(s, library_id, chunk_id, embedding, build_all_algorithms) ==
    IF Len(embedding) = 0 THEN {[reg |-> s.reg, rng |-> s.rng, value |-> FALSE]}
    ELSE {[reg |-> o.reg, rng |-> o.rng, value |-> ~o.raised] :
            o \in AddToIndexes(s, IF build_all_algorithms THEN IndexTypes
                                  ELSE <<DefaultIndexType>>,
                               library_id, chunk_id, embedding)}

\* The loop of remove_chunk over the index types still to do.
RECURSIVE RemoveFromIndexes(_, _, _, _, _)
RemoveFromIndexes(reg, types, library_id, chunk_id, success) ==
    IF Len(types) = 0 THEN [reg |-> reg, value |-> success]
    ELSE LET index_key == IndexKey(library_id, Head(types))
         IN IF index_key \in DOMAIN reg
            THEN LET o == remove_vector(reg[index_key], chunk_id)
                 IN RemoveFromIndexes(Put(reg, index_key, o.ix), Tail(types),
                                      library_id, chunk_id, success \/ o.removed)
            ELSE RemoveFromIndexes(reg, Tail(types), library_id, chunk_id, success)

\* IndexService.remove_chunk: [reg, value].
remove_chunk(reg, library_id, chunk_id) ==
    RemoveFromIndexes(reg, IndexTypes, library_id, chunk_id, FALSE)

\* IndexService.query: the outcomes [reg, rng, value].  A query vector of the
\* wrong length makes the search of a non-empty instance raise, which query
\* turns into [].
query(s, library_id, query_embedding, k, index_type) ==
    IF Len(query_embedding) = 0 THEN {[reg |-> s.reg, rng |-> s.rng, value |-> <<>>]}
    ELSE LET target_index_type == IF index_type = NoIndexType
                                  THEN DefaultIndexType ELSE index_type
             c == _get_or_create_index(s, library_id, target_index_type)
             ix == c.reg[IndexKey(library_id, target_index_type)]
         IN IF Len(query_embedding) # Dimension /\ DOMAIN ix.vectors # {}
            THEN {[reg |-> c.reg, rng |-> c.rng, value |-> <<>>]}
            ELSE {[reg |-> c.reg, rng |-> c.rng, value |-> results] :
                    results \in search(ix, query_embedding, k)}

\* build_index of the three classes.
build_index(ix) == [ix EXCEPT !.built = TRUE]

\* The instances of a library, of the given types, after build_index.
BuildPresent(reg, library_id, types) ==
    [key \in DOMAIN reg |->
        IF key[1] = library_id /\ key[2] \in types
        THEN build_index(reg[key]) ELSE reg[key]]

\* IndexService.build_library_index: [reg, rng, value].
build_library_index(s, library_id, index_type, build_all_algorithms) ==
    IF index_type # NoIndexType
    THEN LET c == _get_or_create_index(s, library_id, index_type)
         IN [reg |-> BuildPresent(c.reg, library_id, {index_type}),
             rng |-> c.rng, value |-> TRUE]
    ELSE [reg |-> BuildPresent(s.reg, library_id,
                               IF build_all_algorithms THEN Range(IndexTypes)
                               ELSE {DefaultIndexType}),
          rng |-> s.rng, value |-> TRUE]

\* IndexService.get_library_stats
get_library_stats(reg, library_id) ==
    LET default_key == IndexKey(library_id, DefaultIndexType)
    IN IF default_key \notin DOMAIN reg
       THEN [error |-> "Library not found"]
       ELSE [library_id |-> library_id,
             total_chunks |-> reg[default_key].size,
             index_type |-> DefaultIndexType]

\* remove_library_index dropping the instances of every library.
remove_every_index(reg, library_id) ==
    [reg |-> EmptyMap, value |-> TypesOf(reg, library_id) # {}]

\* IndexService.remove_library_index: [reg, value].
remove_library_index(reg, library_id) ==
    [reg |-> [key \in {x \in DOMAIN reg : x[1] # library_id} |-> reg[key]],
     value |-> TypesOf(reg, library_id) # {}]

\* LibraryService.delete_library on the rows of the library repository:
\* [libraries, value], value FALSE for None.
delete_library(rows, library_id) ==
    IF library_id \notin rows THEN [libraries |-> rows, value |-> FALSE]
    ELSE [libraries |-> rows \ {library_id}, value |-> TRUE]

\* ChunkService.create_chunk, that is create_chunks_batch for one chunk of
\* an existing document: s is the registry, the generator and the rows of
\* the chunk repository, rows the library repository, chunk_id the id of
\* the new row and embedding what the embedding service gave (<<>> for
\* none). The value of add_chunk is dropped.
create_chunk(s, rows, library_id, chunk_id, embedding) ==
    IF library_id \notin rows
    THEN {[reg |-> s.reg, rng |-> s.rng, chunks |-> s.chunks,
           raised |-> TRUE, is_indexed |-> FALSE]}
    ELSE LET chunk == [library_id |-> library_id,
                       embedding |-> embedding,
                       embedding_dimension |-> Len(embedding),
                       is_indexed |-> embedding # <<>>]
             created == (chunk_id :> chunk) @@ s.chunks
         IN IF embedding = <<>>
            THEN {[reg |-> s.reg, rng |-> s.rng, chunks |-> created,
                   raised |-> FALSE, is_indexed |-> chunk.is_indexed]}
            ELSE {[reg |-> o.reg, rng |-> o.rng, chunks |-> created,
                   raised |-> FALSE, is_indexed |-> chunk.is_indexed] :
                  o \in add_chunk([reg |-> s.reg, rng |-> s.rng], library_id,
                                  chunk_id, embedding, FALSE)}

\* score_map of SearchService._fetch_chunk_details_batch: a dict built from
\* the pairs of index_results, so the last pair of a chunk id gives its score.
ScoreMap(index_results) ==
    [c \in {index_results[i][1] : i \in 1..Len(index_results)} |->
        LET last == CHOOSE i \in 1..Len(index_results) :
                      /\ index_results[i][1] = c
                      /\ \A j \in 1..Len(index_results) :
                            index_results[j][1] = c => j <= i
        IN index_results[last][2]]

\* The loop body of _fetch_chunk_details_batch without its test of the
\* fetched chunk.
fetch_chunk_unchecked(search_results, score_map, chunk_id, rows, failed) ==
    IF failed THEN search_results
    ELSE Append(search_results, <<chunk_id, score_map[chunk_id]>>)

\* The loop body of _fetch_chunk_details_batch for one chunk id: rows is the
\* chunk repository when the fetch is answered, failed tells that one of the
\* two fetches raised; the result is search_results after the iteration, as
\* pairs <<chunk_id, similarity_score>>.
fetch_chunk(search_results, score_map, chunk_id, rows, failed) ==
    IF failed \/ chunk_id \notin DOMAIN rows THEN search_results
    ELSE Append(search_results, <<chunk_id, score_map[chunk_id]>>)

\* The limits startup_reindex reads the repositories with.
LibraryPageLimit == 100

ChunkPageLimit == 1000

\* AsyncLibraryRepository.get_all(limit=...), ORDER BY created_at DESC
\* LIMIT limit: the rows that have fewer than limit newer rows; the ids of
\* the rows grow with their creation time, and the page is read by id
\* downwards.
get_all(rows, limit) ==
    {x \in rows : Cardinality({y \in rows : y > x}) < limit}

\* AsyncChunkRepository.get_by_library_id(library_id, limit=...): the lists
\* the statement, which has no ORDER BY, can give.
get_by_library_id(rows, library_id, limit) ==
    {Take(o, limit) :
        o \in Orders({c \in DOMAIN rows : rows[c].library_id = library_id})}

\* The loop of startup_reindex over the indexed chunks of a library: the
\* outcomes [reg, rng].
RECURSIVE ReindexChunks(_, _, _, _)
ReindexChunks(s, library_id, indexed_chunks, rows) ==
    IF Len(indexed_chunks) = 0 THEN {s}
    ELSE UNION {ReindexChunks([reg |-> o.reg, rng |-> o.rng], library_id,
                              Tail(indexed_chunks), rows) :
                  o \in add_chunk(s, library_id, Head(indexed_chunks),
                                  rows[Head(indexed_chunks)].embedding, FALSE)}

\* The body of the loop of startup_reindex over the libraries, for one
\* library: failing holds the libraries whose chunks cannot be read.
ReindexLibrary(s, library_id, rows, failing) ==
    IF library_id \in failing THEN {s}
    ELSE UNION {
           LET indexed_chunks ==
                   SelectSeq(page, LAMBDA c : rows[c].is_indexed
                                              /\ rows[c].embedding # <<>>)
           IN IF Len(indexed_chunks) = 0 THEN {s}
              ELSE {LET b == build_library_index(o, library_id, NoIndexType, FALSE)
                    IN [reg |-> b.reg, rng |-> b.rng] :
                    o \in ReindexChunks(s, library_id, indexed_chunks, rows)}
           : page \in get_by_library_id(rows, library_id, ChunkPageLimit)}

\* The loop of startup_reindex over the libraries still to do, newest
\* first.
RECURSIVE ReindexLibraries(_, _, _, _)
ReindexLibraries(s, todo, rows, failing) ==
    IF todo = {} THEN {s}
    ELSE UNION {ReindexLibraries(o, todo \ {MaxOf(todo)}, rows, failing) :
                  o \in ReindexLibrary(s, MaxOf(todo), rows, failing)}

\* startup_reindex of main.py on s = [reg, rng], with the rows of the
\* library and of the chunk repository: the outcomes [reg, rng].  A library
\* that has no chunk row leaves the loop body at its continue, so the loop
\* is taken over the libraries of the page that have rows.
startup_reindex(s, library_rows, rows, failing) ==
    ReindexLibraries(s,
                     get_all(library_rows, LibraryPageLimit)
                        \cap {rows[c].library_id : c \in DOMAIN rows},
                     rows, failing)

\* What the embedding provider does with a request: it answers 200 with
\* embeddings, it answers an error status, or the request raises.
ProviderOutcomes == {"ok", "error_status", "exception"}

\* The mock embedding of embedding_service ([0.1] * 1024): a vector of the
\* configured length whose components are all equal.
MockEmbedding == <<3, 3>>

\* embedding_service.generate_query_embedding for a non-empty query, with an
\* API key configured: answer is the provider's embedding of the query;
\* [raised, value].
generate_query_embedding(answer, outcome) ==
    CASE outcome = "ok" -> [raised |-> FALSE, value |-> answer]
      [] outcome = "error_status" -> [raised |-> FALSE, value |-> MockEmbedding]
      [] outcome = "exception" -> [raised |-> TRUE, value |-> <<>>]

VARIABLES
    index,  \* the index instance
    rng,    \* position of the random module's process-wide generator
    ret,    \* the last call and what it returned
    library_indexes,  \* IndexService._library_indexes
    libraries,        \* the ids of the rows of the library repository
    chunks,           \* the rows of the chunk repository
    tasks             \* the frames of the coroutines that have not returned

\* The state of the services.
svars == <<library_indexes, libraries, chunks, tasks>>

vars == <<index, rng, ret, library_indexes, libraries, chunks, tasks>>

\* No service beside the index instance: nothing is registered or stored.
NoService ==
    /\ library_indexes = EmptyMap
    /\ libraries = {}
    /\ chunks = EmptyMap
    /\ tasks = EmptyMap

NoCall == Ret("none", None, <<>>, 0, FALSE, FALSE, <<>>)

Init ==
    /\ index \in {BruteForceIndex(Dimension),
                  LSHIndex(Dimension, LshTables, LshHashLength),
                  HNSWIndex(Dimension, MaxConnections, MaxConnections0)}
    /\ rng = 0
    /\ ret = NoCall
    /\ NoService

\* await index.add_vector(chunk_id, vector), for a chunk id of S
AddVectorIn(S) ==
    \E chunk_id \in S, vector \in Vectors :
        /\ index.size < MaxSize
        /\ \E o \in add_vector(index, rng, chunk_id, vector) :
              /\ o.rng <= MaxDraws
              /\ index' = o.ix
              /\ rng' = o.rng
              /\ ret' = Ret("add", chunk_id, vector, 0, o.raised, FALSE, <<>>)
              /\ UNCHANGED svars

\* await index.remove_vector(chunk_id), for a chunk id of S
RemoveVectorIn(S) ==
    \E chunk_id \in S :
        LET o == remove_vector(index, chunk_id)
        IN /\ index' = o.ix
           /\ ret' = Ret("remove", chunk_id, <<>>, 0, FALSE, o.removed, <<>>)
           /\ UNCHANGED <<rng, svars>>

AddVector == AddVectorIn(Ids)

RemoveVector == RemoveVectorIn(Ids)

\* await index.search(query_vector, k)
Search ==
    \E query_vector \in Queries, k \in 1..MaxK :
        \E results \in search(index, query_vector, k) :
            /\ ret' = Ret("search", None, query_vector, k, FALSE, FALSE, results)
            /\ UNCHANGED <<index, rng, svars>>

\* Another HNSWIndex is constructed in the same process: its __init__ calls
\* random.seed(42) on the generator all instances share.
Reseed ==
    /\ index.alg = "hnsw"
    /\ rng # 0
    /\ rng' = 0
    /\ UNCHANGED <<index, ret, svars>>

Next == AddVector \/ RemoveVector \/ Search \/ Reseed

Spec == Init /\ [][Next]_vars

\* One brute-force instance alone.
InitBF ==
    /\ index = BruteForceIndex(Dimension)
    /\ rng = 0
    /\ ret = NoCall
    /\ NoService

NextBF == AddVector \/ RemoveVector \/ Search

SpecBF == InitBF /\ [][NextBF]_vars

\* One LSH instance alone.
InitLSH ==
    /\ index = LSHIndex(Dimension, LshTables, LshHashLength)
    /\ rng = 0
    /\ ret = NoCall
    /\ NoService

NextLSH == AddVector \/ RemoveVector \/ Search

SpecLSH == InitLSH /\ [][NextLSH]_vars

\* One HNSW instance alone (other HNSW instances may be constructed beside it).
InitHNSW ==
    /\ index = HNSWIndex(Dimension, MaxConnections, MaxConnections0)
    /\ rng = 0
    /\ ret = NoCall
    /\ NoService

NextHNSW == AddVector \/ RemoveVector \/ Search \/ Reseed

SpecHNSW == InitHNSW /\ [][NextHNSW]_vars

\* One HNSW instance constructed with max_connections = max_connections_0
\* = 1, alone in its process (the generator is never reseeded), used with one
\* chunk id more, so that wiring a node overflows a neighbour set.
MoreIds == 1..(NumIds + 1)

InitHNSWSmall ==
    /\ index = HNSWIndex(Dimension, 1, 1)
    /\ rng = 0
    /\ ret = NoCall
    /\ NoService

AddVectorSmall == AddVectorIn(MoreIds)

RemoveVectorSmall == RemoveVectorIn(MoreIds)

NextHNSWSmall == AddVectorSmall \/ RemoveVectorSmall \/ Search

SpecHNSWSmall == InitHNSWSmall /\ [][NextHNSWSmall]_vars

\* The small-cap HNSW instance taking adds only, again and again for the
\* same chunk ids, while other HNSW instances are constructed beside it: a
\* re-add redraws the level of a stored node.
ReaddVectors == {<<3, 4>>, <<5>>}

InitHNSWReadd ==
    /\ index = HNSWIndex(Dimension, 1, 1)
    /\ rng = 0
    /\ ret = NoCall
    /\ NoService

AddVectorReadd ==
    \E chunk_id \in MoreIds, vector \in ReaddVectors :
        /\ index.size < MaxReaddSize
        /\ \E o \in add_vector(index, rng, chunk_id, vector) :
              /\ o.rng <= MaxDraws
              /\ index' = o.ix
              /\ rng' = o.rng
              /\ ret' = Ret("add", chunk_id, vector, 0, o.raised, FALSE, <<>>)
              /\ UNCHANGED svars

NextHNSWReadd == AddVectorReadd \/ Reseed

SpecHNSWReadd == InitHNSWReadd /\ [][NextHNSWReadd]_vars

\* The small-cap HNSW instance under churn: adds and re-adds of three chunk
\* ids until the size counter reaches its guard, removes from then on, and
\* searches once the counter is one below the guard, while other HNSW
\* instances are constructed beside it.  A re-add rewires its node, and the remove that follows leaves the
\* edges of the node's former neighbours pointing at it.
ChurnVectors == {<<5, 0>>, <<0, 5>>}

AddVectorChurn ==
    \E chunk_id \in MoreIds, vector \in ChurnVectors :
        /\ index.size < MaxChurnSize
        /\ \E o \in add_vector(index, rng, chunk_id, vector) :
              /\ o.rng <= MaxDraws
              /\ index' = o.ix
              /\ rng' = o.rng
              /\ ret' = Ret("add", chunk_id, vector, 0, o.raised, FALSE, <<>>)
              /\ UNCHANGED svars

RemoveVectorChurn ==
    /\ index.size >= MaxChurnSize
    /\ RemoveVectorIn(MoreIds)

ChurnQueries == {<<5, 0>>}

SearchChurn ==
    \E query_vector \in ChurnQueries, k \in 1..MaxK :
        /\ index.size >= MaxChurnSize - 1
        /\ \E results \in search(index, query_vector, k) :
              /\ ret' = Ret("search", None, query_vector, k, FALSE, FALSE, results)
              /\ UNCHANGED <<index, rng, svars>>

NextHNSWChurn == AddVectorChurn \/ RemoveVectorChurn \/ SearchChurn \/ Reseed

SpecHNSWChurn == InitHNSWSmall /\ [][NextHNSWChurn]_vars

\* ------------------------------------------------ tasks on one instance

\* Tasks of one event loop calling the same HNSW instance.  A call is a
\* coroutine; add_vector and remove_vector are taken in their two halves,
\* and the frame of a task holds what its second half needs.
Tasks == 1..NumTasks

IdleFrame ==
    [op |-> "none", pc |-> "idle", chunk_id |-> None, vector |-> <<>>,
     level |-> 0]

\* A scheduler that would switch tasks between any two steps.
SwitchAnywhere(frames) == TRUE

\* The event loop runs another task only when the running coroutine
\* suspends or returns: the calls of the index classes await nothing but
\* one another, so the loop switches only when no call is between its halves.
CanSwitch(frames) == \A t \in DOMAIN frames : frames[t].pc = "idle"

InitTasks ==
    /\ index = HNSWIndex(Dimension, MaxConnections, MaxConnections0)
    /\ rng = 0
    /\ ret = NoCall
    /\ library_indexes = EmptyMap
    /\ libraries = {}
    /\ chunks = EmptyMap
    /\ tasks = [t \in Tasks |-> IdleFrame]

\* A task calls index.add_vector(chunk_id, vector): up to the stored
\* neighbour sets, or to the ValueError of a vector of the wrong length.
AddVectorStore ==
    \E t \in Tasks, chunk_id \in Ids, vector \in Vectors :
        /\ CanSwitch(tasks)
        /\ index.size < MaxSize
        /\ IF Len(vector) # index.dimension
           THEN /\ ret' = Ret("add", chunk_id, vector, 0, TRUE, FALSE, <<>>)
                /\ UNCHANGED <<index, rng, tasks>>
           ELSE LET drawn == _generate_level(rng)
                IN /\ drawn.rng <= MaxDraws
                   /\ index' = HNSWStore(index, chunk_id,
                                         normalize_vector(vector), drawn.level)
                   /\ rng' = drawn.rng
                   /\ tasks' = [tasks EXCEPT ![t] =
                                  [op |-> "add", pc |-> "connect",
                                   chunk_id |-> chunk_id, vector |-> vector,
                                   level |-> drawn.level]]
                   /\ UNCHANGED ret
        /\ UNCHANGED <<library_indexes, libraries, chunks>>

\* The add of a task goes on to its end.
AddVectorConnect ==
    \E t \in Tasks :
        /\ tasks[t].pc = "connect"
        /\ \E o \in HNSWConnect(index, tasks[t].chunk_id,
                                normalize_vector(tasks[t].vector), tasks[t].level) :
              /\ index' = o.ix
              /\ ret' = Ret("add", tasks[t].chunk_id, tasks[t].vector, 0,
                            o.raised, FALSE, <<>>)
        /\ tasks' = [tasks EXCEPT ![t] = IdleFrame]
        /\ UNCHANGED <<rng, library_indexes, libraries, chunks>>

\* A task calls index.remove_vector(chunk_id): up to the dropped reverse
\* edges, or to the False of an id that is not stored.
RemoveVectorUnlink ==
    \E t \in Tasks, chunk_id \in Ids :
        /\ CanSwitch(tasks)
        /\ IF chunk_id \notin DOMAIN index.vectors
           THEN /\ ret' = Ret("remove", chunk_id, <<>>, 0, FALSE, FALSE, <<>>)
                /\ UNCHANGED <<index, tasks>>
           ELSE /\ index' = HNSWUnlink(index, chunk_id)
                /\ tasks' = [tasks EXCEPT ![t] =
                               [op |-> "remove", pc |-> "delete",
                                chunk_id |-> chunk_id, vector |-> <<>>,
                                level |-> 0]]
                /\ UNCHANGED ret
        /\ UNCHANGED <<rng, library_indexes, libraries, chunks>>

\* The remove of a task goes on to its end.
RemoveVectorDelete ==
    \E t \in Tasks :
        /\ tasks[t].pc = "delete"
        /\ index' = HNSWDelete(index, tasks[t].chunk_id)
        /\ ret' = Ret("remove", tasks[t].chunk_id, <<>>, 0, FALSE, TRUE, <<>>)
        /\ tasks' = [tasks EXCEPT ![t] = IdleFrame]
        /\ UNCHANGED <<rng, library_indexes, libraries, chunks>>

\* A task calls index.search(query_vector, k), which runs to its end.
SearchTask ==
    \E query_vector \in Queries, k \in 1..MaxK :
        /\ CanSwitch(tasks)
        /\ \E results \in search(index, query_vector, k) :
              ret' = Ret("search", None, query_vector, k, FALSE, FALSE, results)
        /\ UNCHANGED <<index, rng, svars>>

NextTasks ==
    \/ AddVectorStore
    \/ AddVectorConnect
    \/ RemoveVectorUnlink
    \/ RemoveVectorDelete
    \/ SearchTask

SpecTasks == InitTasks /\ [][NextTasks]_vars

\* ------------------------------------------- the services of a process

\* The libraries, the chunk ids and the embeddings the services are called
\* with: two unit vectors, a vector of the wrong length and no embedding.
Libs == 1..NumLibs

ChunkIds == 1..NumChunks

Embeddings == {<<5, 0>>, <<0, 5>>, <<5>>, <<>>}

\* No index instance outside the registry.
NoIndex == VectorIndexBase("none", 0)

\* What a call of a service returned.
SRet(op, library_id, value) ==
    [op |-> op, library_id |-> library_id, value |-> value]

\* IndexService() beside a store that holds the libraries.
InitServices ==
    /\ index = NoIndex
    /\ rng = 0
    /\ ret = SRet("none", None, FALSE)
    /\ library_indexes = EmptyMap
    /\ libraries = Libs
    /\ chunks = EmptyMap
    /\ tasks = EmptyMap

\* await index_service.add_chunk(library_id, chunk_id, embedding,
\*                               build_all_algorithms=...),
\* for a library of L and a flag of F
AddChunkIn(L, F) ==
    \E library_id \in L, chunk_id \in ChunkIds, embedding \in Embeddings,
       build_all_algorithms \in F :
        /\ \A t \in TypesOf(library_indexes, library_id) :
              library_indexes[IndexKey(library_id, t)].size < MaxRegistrySize
        /\ \E o \in add_chunk([reg |-> library_indexes, rng |-> rng],
                              library_id, chunk_id, embedding,
                              build_all_algorithms) :
              /\ o.rng <= MaxDraws
              /\ library_indexes' = o.reg
              /\ rng' = o.rng
              /\ ret' = SRet("add_chunk", library_id, o.value)
        /\ UNCHANGED <<index, libraries, chunks, tasks>>

\* await index_service.remove_chunk(library_id, chunk_id)
RemoveChunkIn(L) ==
    \E library_id \in L, chunk_id \in ChunkIds :
        LET o == remove_chunk(library_indexes, library_id, chunk_id)
        IN /\ library_indexes' = o.reg
           /\ ret' = SRet("remove_chunk", library_id, o.value)
           /\ UNCHANGED <<index, rng, libraries, chunks, tasks>>

\* await index_service.query(library_id, query_embedding, k, index_type),
\* for an index_type of T
QueryIn(L, T) ==
    \E library_id \in L, query_embedding \in Embeddings, k \in 1..MaxK,
       index_type \in T :
        \E o \in query([reg |-> library_indexes, rng |-> rng],
                       library_id, query_embedding, k, index_type) :
            /\ library_indexes' = o.reg
            /\ rng' = o.rng
            /\ ret' = SRet("query", library_id, o.value)
            /\ UNCHANGED <<index, libraries, chunks, tasks>>

\* await index_service.build_library_index(library_id, index_type,
\*                                         build_all_algorithms)
BuildLibraryIndexIn(L, T, F) ==
    \E library_id \in L, index_type \in T, build_all_algorithms \in F :
        LET o == build_library_index([reg |-> library_indexes, rng |-> rng],
                                     library_id, index_type, build_all_algorithms)
        IN /\ library_indexes' = o.reg
           /\ rng' = o.rng
           /\ ret' = SRet("build_library_index", library_id, o.value)
           /\ UNCHANGED <<index, libraries, chunks, tasks>>

\* index_service.get_library_stats(library_id)
GetLibraryStatsIn(L) ==
    \E library_id \in L :
        /\ ret' = SRet("get_library_stats", library_id,
                       get_library_stats(library_indexes, library_id))
        /\ UNCHANGED <<index, rng, library_indexes, libraries, chunks, tasks>>

\* await index_service.remove_library_index(library_id)
RemoveLibraryIndexIn(L) ==
    \E library_id \in L :
        LET o == remove_library_index(library_indexes, library_id)
        IN /\ library_indexes' = o.reg
           /\ ret' = SRet("remove_library_index", library_id, o.value)
           /\ UNCHANGED <<index, rng, libraries, chunks, tasks>>

\* await library_service.delete_library(library_id)
DeleteLibraryIn(L) ==
    \E library_id \in L :
        LET o == delete_library(libraries, library_id)
        IN /\ libraries' = o.libraries
           /\ ret' = SRet("delete_library", library_id, o.value)
           /\ UNCHANGED <<index, rng, library_indexes, chunks, tasks>>

\* The services called for one library, with every index type and flag.
OneLibrary == {1}

AnyIndexType == Range(IndexTypes) \cup {NoIndexType}

AddChunk == AddChunkIn(OneLibrary, BOOLEAN)

RemoveChunk == RemoveChunkIn(OneLibrary)

Query == QueryIn(OneLibrary, AnyIndexType)

BuildLibraryIndex == BuildLibraryIndexIn(OneLibrary, AnyIndexType, BOOLEAN)

GetLibraryStats == GetLibraryStatsIn(OneLibrary)

RemoveLibraryIndex == RemoveLibraryIndexIn(OneLibrary)

DeleteLibrary == DeleteLibraryIn(OneLibrary)

NextServices ==
    \/ AddChunk
    \/ RemoveChunk
    \/ Query
    \/ BuildLibraryIndex
    \/ GetLibraryStats
    \/ RemoveLibraryIndex
    \/ DeleteLibrary

SpecServices == InitServices /\ [][NextServices]_vars

\* The services called for two libraries that use the same chunk ids, with
\* the default index type or all of them.
AddChunkLibs == AddChunkIn(Libs, BOOLEAN)

RemoveChunkLibs == RemoveChunkIn(Libs)

QueryLibs == QueryIn(Libs, {NoIndexType})

BuildLibraryIndexLibs == BuildLibraryIndexIn(Libs, {NoIndexType}, BOOLEAN)

RemoveLibraryIndexLibs == RemoveLibraryIndexIn(Libs)

NextLibraries ==
    \/ AddChunkLibs
    \/ RemoveChunkLibs
    \/ QueryLibs
    \/ BuildLibraryIndexLibs
    \/ RemoveLibraryIndexLibs

SpecLibraries == InitServices /\ [][NextLibraries]_vars

\* await chunk_service.create_chunk(document_id, library_id, text) for a
\* library of L, where the repository gives the new row an id of C that no
\* row has and the embedding service answers with a vector of E
CreateChunkIn(L, C, E) ==
    \E library_id \in L, chunk_id \in C \ DOMAIN chunks, embedding \in E :
        \E o \in create_chunk([reg |-> library_indexes, rng |-> rng,
                               chunks |-> chunks],
                              libraries, library_id, chunk_id, embedding) :
            /\ o.rng <= MaxDraws
            /\ library_indexes' = o.reg
            /\ rng' = o.rng
            /\ chunks' = o.chunks
            /\ ret' = SRet("create_chunk", library_id,
                           [raised |-> o.raised, chunk_id |-> chunk_id,
                            embedding_dimension |-> Len(embedding),
                            is_indexed |-> o.is_indexed])
            /\ UNCHANGED <<index, libraries, tasks>>

\* The chunk service creating chunks in two libraries that come and go.
CreateChunk == CreateChunkIn(Libs, MoreIds, Embeddings)

DeleteLibraryLibs == DeleteLibraryIn(Libs)

NextChunks == CreateChunk \/ DeleteLibraryLibs

SpecChunks == InitServices /\ [][NextChunks]_vars

\* Instances of two libraries that are constructed by a first query or a
\* first add and then take adds only, every add of a library with the next
\* chunk id: the vectors an instance stores tell the adds it received.
NextChunkId(reg, library_id) ==
    IF IndexKey(library_id, DefaultIndexType) \in DOMAIN reg
    THEN Cardinality(DOMAIN reg[IndexKey(library_id, DefaultIndexType)].vectors) + 1
    ELSE 1

AddChunkTwins ==
    \E library_id \in Libs, embedding \in Embeddings,
       build_all_algorithms \in BOOLEAN :
        LET chunk_id == NextChunkId(library_indexes, library_id)
        IN /\ chunk_id <= NumTwinAdds
           /\ \E o \in add_chunk([reg |-> library_indexes, rng |-> rng],
                                 library_id, chunk_id, embedding,
                                 build_all_algorithms) :
                 /\ o.rng <= MaxDraws
                 /\ library_indexes' = o.reg
                 /\ rng' = o.rng
                 /\ ret' = SRet("add_chunk", library_id, o.value)
           /\ UNCHANGED <<index, libraries, chunks, tasks>>

NextTwins == AddChunkTwins \/ QueryLibs

SpecTwins == InitServices /\ [][NextTwins]_vars

\* ------------------------------------------- tasks calling the services

\* The frame of a task that calls a service: the call, where it is
\* suspended, and its locals.
\*   chunk     the row a fetch gave, NoChunk for None
\*   hits      index_results of a search
\*   kept      for each hit fetched so far, whether its chunk was there and
\*             no fetch failed
\*   results   search_results so far
\*   provider  what the embedding provider did for the call ("none" when it
\*             was not asked)
NoChunk == [library_id |-> None]

IdleTask ==
    [op |-> "none", pc |-> "idle", library_id |-> None, chunk_id |-> None,
     chunk |-> NoChunk, embedding |-> <<>>, hits |-> <<>>, kept |-> <<>>,
     results |-> <<>>, provider |-> "none", answer |-> <<>>]

\* What a search of the search service returned: the embedding it queried
\* the index with (<<>> when it did not), the hits of the index, which of
\* them were kept, and the list it returned.
Found(provider, raised, query_embedding, hits, kept, results) ==
    [provider |-> provider, raised |-> raised,
     query_embedding |-> query_embedding, hits |-> hits, kept |-> kept,
     results |-> results]

InitServiceTasks ==
    /\ index = NoIndex
    /\ rng = 0
    /\ ret = SRet("none", None, FALSE)
    /\ library_indexes = EmptyMap
    /\ libraries = Libs
    /\ chunks = EmptyMap
    /\ tasks = [t \in Tasks |-> IdleTask]

\* The two embeddings of the configured dimension.
UnitEmbeddings == {e \in Embeddings : Len(e) = Dimension}

CreateChunkOne == CreateChunkIn(OneLibrary, Ids, UnitEmbeddings)

\* A task calls chunk_service.delete_chunk(chunk_id) and the repository
\* answers its get_by_id: None ends the call.
DeleteChunkGetIn(C) ==
    \E t \in Tasks, chunk_id \in C :
        /\ tasks[t].pc = "idle"
        /\ IF chunk_id \in DOMAIN chunks
           THEN /\ tasks' = [tasks EXCEPT ![t] =
                               [IdleTask EXCEPT !.op = "delete_chunk",
                                                !.pc = "remove",
                                                !.chunk_id = chunk_id,
                                                !.chunk = chunks[chunk_id]]]
                /\ UNCHANGED ret
           ELSE /\ ret' = SRet("delete_chunk", None,
                               [chunk_id |-> chunk_id, deleted |-> FALSE])
                /\ UNCHANGED tasks
        /\ UNCHANGED <<index, rng, library_indexes, libraries, chunks>>

DeleteChunkGet == DeleteChunkGetIn(Ids)

\* delete_chunk resumes with its chunk: index_service.remove_chunk, then
\* the repository is asked to delete the row.
DeleteChunkRemove ==
    \E t \in Tasks :
        /\ tasks[t].op = "delete_chunk"
        /\ tasks[t].pc = "remove"
        /\ library_indexes' = remove_chunk(library_indexes,
                                           tasks[t].chunk.library_id,
                                           tasks[t].chunk_id).reg
        /\ tasks' = [tasks EXCEPT ![t].pc = "delete"]
        /\ UNCHANGED <<index, rng, ret, libraries, chunks>>

\* The repository deletes the row and delete_chunk returns: its message
\* when a row was deleted, None when there was none.
DeleteChunkDelete ==
    \E t \in Tasks :
        /\ tasks[t].op = "delete_chunk"
        /\ tasks[t].pc = "delete"
        /\ chunks' = Del(chunks, tasks[t].chunk_id)
        /\ ret' = SRet("delete_chunk", tasks[t].chunk.library_id,
                       [chunk_id |-> tasks[t].chunk_id,
                        deleted |-> tasks[t].chunk_id \in DOMAIN chunks])
        /\ tasks' = [tasks EXCEPT ![t] = IdleTask]
        /\ UNCHANGED <<index, rng, library_indexes, libraries>>

\* search_by_embedding(library_id, query_embedding, k) in task t, on behalf
\* of the call op: up to the first fetch, or to the [] of no embedding and of
\* no index result.
BeginSearch(t, op, provider, library_id, query_embedding, k) ==
    /\ IF query_embedding = <<>>
       THEN /\ ret' = SRet(op, library_id,
                           Found(provider, FALSE, <<>>, <<>>, <<>>, <<>>))
            /\ UNCHANGED <<library_indexes, rng, tasks>>
       ELSE \E o \in query([reg |-> library_indexes, rng |-> rng],
                           library_id, query_embedding, k, NoIndexType) :
              /\ library_indexes' = o.reg
              /\ rng' = o.rng
              /\ IF o.value = <<>>
                 THEN /\ ret' = SRet(op, library_id,
                                     Found(provider, FALSE, query_embedding,
                                           <<>>, <<>>, <<>>))
                      /\ UNCHANGED tasks
                 ELSE /\ tasks' = [tasks EXCEPT ![t] =
                                     [IdleTask EXCEPT
                                         !.op = op,
                                         !.pc = "fetch",
                                         !.library_id = library_id,
                                         !.embedding = query_embedding,
                                         !.hits = o.value,
                                         !.provider = provider]]
                      /\ UNCHANGED ret
    /\ UNCHANGED <<index, libraries, chunks>>

\* A task calls search_service.search_by_embedding(library_id,
\* query_embedding, k).
SearchByEmbedding ==
    \E t \in Tasks, library_id \in OneLibrary, query_embedding \in Embeddings,
       k \in 1..MaxK :
        /\ tasks[t].pc = "idle"
        /\ BeginSearch(t, "search_by_embedding", "none", library_id,
                       query_embedding, k)

\* The repositories answer the fetches of the next hit, or one of them
\* fails; after the last hit the search returns.
SearchFetch ==
    \E t \in Tasks, failed \in BOOLEAN :
        /\ tasks[t].pc = "fetch"
        /\ LET f == tasks[t]
               chunk_id == f.hits[Len(f.kept) + 1][1]
               kept == Append(f.kept, ~failed /\ chunk_id \in DOMAIN chunks)
               results == fetch_chunk(f.results, ScoreMap(f.hits), chunk_id,
                                      chunks, failed)
           IN IF Len(kept) < Len(f.hits)
              THEN /\ tasks' = [tasks EXCEPT ![t].kept = kept,
                                             ![t].results = results]
                   /\ UNCHANGED ret
              ELSE /\ ret' = SRet(f.op, f.library_id,
                                  Found(f.provider, FALSE, f.embedding,
                                        f.hits, kept, results))
                   /\ tasks' = [tasks EXCEPT ![t] = IdleTask]
        /\ UNCHANGED <<index, rng, library_indexes, libraries, chunks>>

NextSearch ==
    \/ CreateChunkOne
    \/ DeleteChunkGet
    \/ DeleteChunkRemove
    \/ DeleteChunkDelete
    \/ SearchByEmbedding
    \/ SearchFetch

SpecSearch == InitServiceTasks /\ [][NextSearch]_vars

\* A task calls search_service.search_by_text(library_id, query_text, k):
\* blank tells a query of white space only, answer is the provider's
\* embedding of the query.
SearchByText ==
    \E t \in Tasks, library_id \in OneLibrary, blank \in BOOLEAN,
       answer \in UnitEmbeddings, outcome \in ProviderOutcomes, k \in 1..MaxK :
        /\ tasks[t].pc = "idle"
        /\ IF blank
           THEN /\ ret' = SRet("search_by_text", library_id,
                               Found("none", FALSE, <<>>, <<>>, <<>>, <<>>))
                /\ UNCHANGED <<index, rng, library_indexes, libraries,
                               chunks, tasks>>
           ELSE LET query_embedding == generate_query_embedding(answer, outcome)
                IN IF query_embedding.raised
                   THEN /\ ret' = SRet("search_by_text", library_id,
                                       Found(outcome, TRUE, <<>>, <<>>, <<>>,
                                             <<>>))
                        /\ UNCHANGED <<index, rng, library_indexes, libraries,
                                       chunks, tasks>>
                   ELSE BeginSearch(t, "search_by_text", outcome, library_id,
                                    query_embedding.value, k)

NextSearchText == CreateChunkOne \/ SearchByText \/ SearchFetch

SpecSearchText == InitServiceTasks /\ [][NextSearchText]_vars

\* ChunkService._generate_embedding_for_chunk(text), with an API key
\* configured: answer is the provider's embedding of text; an exception of
\* the provider call is caught and gives no embedding (<<>> stands for None,
\* and so does a dimension of 0).
_generate_embedding_for_chunk(answer, outcome) ==
    LET generated == generate_query_embedding(answer, outcome)
        embedding == IF generated.raised THEN <<>> ELSE generated.value
    IN [embedding |-> embedding,
        embedding_dimension |-> Len(embedding),
        is_indexed |-> embedding # <<>>]

\* AsyncChunkRepository.update(chunk_id, update_data): the values that are
\* None are left out of the UPDATE; [rows, chunk], chunk being the row
\* returned (NoChunk for None).
update(rows, chunk_id, update_data) ==
    IF chunk_id \notin DOMAIN rows THEN [rows |-> rows, chunk |-> NoChunk]
    ELSE LET old == rows[chunk_id]
             row == [library_id |-> old.library_id,
                     embedding |-> IF update_data.embedding = <<>>
                                   THEN old.embedding
                                   ELSE update_data.embedding,
                     embedding_dimension |->
                         IF update_data.embedding_dimension = 0
                         THEN old.embedding_dimension
                         ELSE update_data.embedding_dimension,
                     is_indexed |-> update_data.is_indexed]
         IN [rows |-> Put(rows, chunk_id, row), chunk |-> row]

\* What update_chunk_text returned: whether it returned a chunk, the
\* provider's embedding of the new text, the embedding the call obtained and
\* how the provider answered.
Updated(chunk_id, updated, answer, embedding, provider) ==
    [chunk_id |-> chunk_id, updated |-> updated, answer |-> answer,
     embedding |-> embedding, provider |-> provider]

\* The chunk id the tasks that update and delete are called with.
OneChunk == {1}

CreateChunkOneChunk == CreateChunkIn(OneLibrary, OneChunk, UnitEmbeddings)

DeleteChunkGetOne == DeleteChunkGetIn(OneChunk)

\* A task calls chunk_service.update_chunk_text(chunk_id, text): the
\* repository answers its get_by_id (None ends the call) and the provider
\* is asked for the embedding of text.
UpdateChunkGet ==
    \E t \in Tasks, chunk_id \in OneChunk, answer \in UnitEmbeddings,
       outcome \in ProviderOutcomes :
        /\ tasks[t].pc = "idle"
        /\ IF chunk_id \in DOMAIN chunks
           THEN /\ tasks' = [tasks EXCEPT ![t] =
                               [IdleTask EXCEPT
                                   !.op = "update_chunk_text",
                                   !.pc = "update",
                                   !.chunk_id = chunk_id,
                                   !.chunk = chunks[chunk_id],
                                   !.embedding =
                                       _generate_embedding_for_chunk(
                                           answer, outcome).embedding,
                                   !.provider = outcome,
                                   !.answer = answer]]
                /\ UNCHANGED ret
           ELSE /\ ret' = SRet("update_chunk_text", None,
                               Updated(chunk_id, FALSE, answer, <<>>, "none"))
                /\ UNCHANGED tasks
        /\ UNCHANGED <<index, rng, library_indexes, libraries, chunks>>

\* The repository executes the UPDATE of update_chunk_text.
UpdateChunkUpdate ==
    \E t \in Tasks :
        /\ tasks[t].op = "update_chunk_text"
        /\ tasks[t].pc = "update"
        /\ LET embedding == tasks[t].embedding
               o == update(chunks, tasks[t].chunk_id,
                           [embedding |-> embedding,
                            embedding_dimension |-> Len(embedding),
                            is_indexed |-> embedding # <<>>])
           IN /\ chunks' = o.rows
              /\ tasks' = [tasks EXCEPT ![t].pc = "index",
                                        ![t].chunk = o.chunk]
        /\ UNCHANGED <<index, rng, ret, library_indexes, libraries>>

\* update_chunk_text resumes with updated_chunk: with a chunk and an
\* embedding it calls index_service.remove_chunk and add_chunk, and it
\* returns updated_chunk.
UpdateChunkIndex ==
    \E t \in Tasks :
        /\ tasks[t].op = "update_chunk_text"
        /\ tasks[t].pc = "index"
        /\ LET f == tasks[t]
           IN /\ IF f.chunk # NoChunk /\ f.embedding # <<>>
                 THEN \E o \in add_chunk(
                                 [reg |-> remove_chunk(library_indexes,
                                                       f.chunk.library_id,
                                                       f.chunk_id).reg,
                                  rng |-> rng],
                                 f.chunk.library_id, f.chunk_id, f.embedding,
                                 FALSE) :
                        /\ o.rng <= MaxDraws
                        /\ library_indexes' = o.reg
                        /\ rng' = o.rng
                 ELSE UNCHANGED <<library_indexes, rng>>
              /\ ret' = SRet("update_chunk_text", f.chunk.library_id,
                             Updated(f.chunk_id, f.chunk # NoChunk, f.answer,
                                     f.embedding, f.provider))
        /\ tasks' = [tasks EXCEPT ![t] = IdleTask]
        /\ UNCHANGED <<index, libraries, chunks>>

\* Tasks of the chunk service create, update and delete one chunk of one
\* library concurrently.
NextChunkTasks ==
    \/ CreateChunkOneChunk
    \/ DeleteChunkGetOne
    \/ DeleteChunkRemove
    \/ DeleteChunkDelete
    \/ UpdateChunkGet
    \/ UpdateChunkUpdate
    \/ UpdateChunkIndex

SpecChunkTasks == InitServiceTasks /\ [][NextChunkTasks]_vars

\* The same calls made one at a time: a call starts when no task is in
\* flight.
NextChunkCalls ==
    \/ (CanSwitch(tasks) /\ CreateChunkOneChunk)
    \/ (CanSwitch(tasks) /\ DeleteChunkGetOne)
    \/ DeleteChunkRemove
    \/ DeleteChunkDelete
    \/ (CanSwitch(tasks) /\ UpdateChunkGet)
    \/ UpdateChunkUpdate
    \/ UpdateChunkIndex

SpecChunkCalls == InitServiceTasks /\ [][NextChunkCalls]_vars

\* ------------------------------------------------- the start of a process

\* A store that earlier processes wrote, then the start of a process on an
\* empty registry.  Chunks are stored in the two oldest libraries, with an
\* embedding of the configured length or with none.
InitStartup ==
    /\ index = NoIndex
    /\ rng = 0
    /\ ret = SRet("none", None, FALSE)
    /\ library_indexes = EmptyMap
    /\ libraries = {}
    /\ chunks = EmptyMap
    /\ tasks = EmptyMap

OldestLibs == {1, 2}

Started == ret.op = "startup_reindex"

\* An earlier process created a library.
StoreLibrary ==
    /\ ~Started
    /\ Cardinality(libraries) < NumStoredLibs
    /\ libraries' = libraries \cup {Cardinality(libraries) + 1}
    /\ UNCHANGED <<index, rng, ret, library_indexes, chunks, tasks>>

\* An earlier process created a chunk: the row create_chunk leaves.
StoreChunk ==
    \E library_id \in OldestLibs \cap libraries, chunk_id \in Ids \ DOMAIN chunks,
       embedding \in UnitEmbeddings \cup {<<>>} :
        /\ ~Started
        /\ \E o \in create_chunk([reg |-> EmptyMap, rng |-> 0, chunks |-> chunks],
                                 libraries, library_id, chunk_id, embedding) :
              chunks' = o.chunks
        /\ UNCHANGED <<index, rng, ret, library_indexes, libraries, tasks>>

\* The process starts: lifespan awaits startup_reindex().
StartupReindex ==
    \E failing \in SUBSET (OldestLibs \cap libraries) :
        /\ ~Started
        /\ \E o \in startup_reindex([reg |-> library_indexes, rng |-> rng],
                                    libraries, chunks, failing) :
              /\ o.rng <= MaxDraws
              /\ library_indexes' = o.reg
              /\ rng' = o.rng
        /\ ret' = SRet("startup_reindex", None, [failing |-> failing])
        /\ UNCHANGED <<index, libraries, chunks, tasks>>

NextStartup == StoreLibrary \/ StoreChunk \/ StartupReindex

SpecStartup == InitStartup /\ [][NextStartup]_vars

\* ------------------------------------------------------------ properties

Stored == DOMAIN index.vectors

Levels == 0..LevelCap

\* The bucket of table t with key b ({} when the table has no such bucket).
Bucket(ix, t, b) ==
    IF b \in DOMAIN ix.hash_tables[t] THEN ix.hash_tables[t][b] ELSE {}

BucketKeys(ix) == {md5_hexdigest8(bits) : bits \in [1..ix.hash_length -> {0, 1}]}

\* Some structure of the instance refers to chunk id c.
RefersTo(ix, c) ==
    \/ c \in DOMAIN ix.vectors
    \/ c \in Range(ix.keys)
    \/ c \in ix.metadata
    \/ c \in DOMAIN ix.levels
    \/ c \in DOMAIN ix.connections
    \/ \E n \in DOMAIN ix.connections :
          \E l \in DOMAIN ix.connections[n] : c \in ix.connections[n][l]
    \/ \E t \in 1..ix.num_tables :
          \E b \in DOMAIN ix.hash_tables[t] : c \in ix.hash_tables[t][b]
    \/ ix.entry_point = c

\* C1: the size counter equals the number of distinct chunk ids stored.
C1_SizeCountsStoredIds == index.size = Cardinality(Stored)

\* C2: in an HNSW instance every edge is bidirectional: u is a neighbour of v
\* at level l iff v is a neighbour of u at level l, for all stored u, v.
C2_EdgesSymmetric ==
    index.alg = "hnsw" =>
        \A u \in Stored, v \in Stored, l \in Levels :
            u \in Neighbours(index, v, l) <=> v \in Neighbours(index, u, l)

\* C3: in an LSH instance a chunk id is listed in bucket b of table t iff it
\* is stored and its stored vector's signature under table t is b.
C3_BucketsExact ==
    index.alg = "lsh" =>
        \A t \in 1..index.num_tables, b \in BucketKeys(index), c \in Ids :
            c \in Bucket(index, t, b)
                <=> (c \in Stored /\ hash_vector(index, t, index.vectors[c]) = b)

\* C4: an add of an id that is already stored replaces its vector by the
\* normalized new one, keeps one entry for it and leaves size as it was, and
\* every search then reports that id with its similarity to the new vector.
C4_OverwriteKeepsSize ==
    [][(AddVector /\ ret'.op = "add" /\ ~ret'.raised /\ ret'.id \in Stored)
        => /\ index'.size = index.size
           /\ DOMAIN index'.vectors = Stored
           /\ index'.vectors[ret'.id] = normalize_vector(ret'.vec)
           /\ \A q \in Queries, k \in 1..MaxK :
                 \A r \in search(index', q, k) :
                    \A i \in 1..Len(r) :
                       r[i][1] = ret'.id =>
                          r[i][2] = cosine_similarity(normalize_vector(q),
                                                      normalize_vector(ret'.vec))
       ]_vars

\* C5: after a successful remove(id), also one that follows two adds of id,
\* no structure of the instance refers to id and size is the number of ids
\* still stored.
C5_RemoveLeavesNoTrace ==
    (ret.op = "remove" /\ ret.removed)
        => (~RefersTo(index, ret.id) /\ index.size = Cardinality(Stored))

\* C6: remove of an id that is not stored returns false and changes nothing.
C6_RemoveAbsentIsNoOp ==
    [][(RemoveVector /\ ret'.id \notin Stored)
        => (~ret'.removed /\ index' = index /\ rng' = rng)]_vars

\* C7: in an HNSW instance entry_point is null iff size is 0, and a non-null
\* entry_point is a stored node with a vector, a level and neighbour sets.
C7_EntryPointNullIffEmpty ==
    index.alg = "hnsw" =>
        /\ (index.entry_point = None) <=> (index.size = 0)
        /\ index.entry_point # None =>
              /\ index.entry_point \in Stored
              /\ index.entry_point \in DOMAIN index.levels
              /\ index.entry_point \in DOMAIN index.connections

\* C8: in a non-empty HNSW instance the entry point's level is the maximum
\* level over the stored nodes.
C8_EntryPointHasMaxLevel ==
    (index.alg = "hnsw" /\ Stored # {}) =>
        /\ index.entry_point \in DOMAIN index.levels
        /\ \A n \in Stored : index.levels[n] <= index.levels[index.entry_point]

\* A search on ix can return chunk id c, for some query and some k.
Searchable(ix, c) ==
    \E q \in Queries, k \in 1..MaxK :
        \E r \in search(ix, q, k) : \E i \in 1..Len(r) : r[i][1] = c

\* C9: a successful remove(B) lowers size by exactly one, no search returns B
\* while B is not stored, and every other stored id that a search could
\* return before the remove can still be returned after it.
C9_RemovedGoneOthersSearchable ==
    [][(RemoveVectorSmall /\ ret'.removed)
        => /\ index'.size = index.size - 1
           /\ ~Searchable(index', ret'.id)
           /\ \A c \in Stored \ {ret'.id} :
                 Searchable(index, c) => Searchable(index', c)
       ]_vars

\* Position of chunk id c in the insertion order of the vectors dict.
Pos(ix, c) == CHOOSE i \in 1..Len(ix.keys) : ix.keys[i] = c

\* C10: BruteForceIndex.search(q, k), k >= 1, returns min(k, size) results,
\* distinct stored ids with their similarity to q; no stored id left out is
\* strictly more similar than a returned one, and equal similarities (inside
\* the list, and between the list and what it leaves out) are in insertion
\* order.
C10_BruteForceExactTopK ==
    (index.alg = "brute_force" /\ ret.op = "search") =>
        LET r == ret.results
            q == normalize_vector(ret.vec)
            sim(c) == cosine_similarity(q, index.vectors[c])
            returned == {r[i][1] : i \in 1..Len(r)}
        IN /\ Len(r) = Min(ret.k, index.size)
           /\ \A i \in 1..Len(r) : r[i][1] \in Stored /\ r[i][2] = sim(r[i][1])
           /\ \A i \in 1..Len(r), j \in 1..Len(r) : i < j => r[i][1] # r[j][1]
           /\ \A i \in 1..Len(r), j \in 1..Len(r) :
                 i < j => \/ r[i][2] > r[j][2]
                          \/ /\ r[i][2] = r[j][2]
                             /\ Pos(index, r[i][1]) < Pos(index, r[j][1])
           /\ \A c \in Stored \ returned, i \in 1..Len(r) :
                 \/ sim(c) < r[i][2]
                 \/ sim(c) = r[i][2] /\ Pos(index, r[i][1]) < Pos(index, c)

\* A remove of an id that is not stored has returned false on an instance
\* that stores another id.
C6_Witness ==
    /\ ret.op = "remove"
    /\ ~ret.removed
    /\ ret.id \notin Stored
    /\ Stored # {}

\* A brute-force search with k below size has cut a tie: the id returned and
\* the id left out are equally similar to the query.
C10_Witness ==
    /\ index.alg = "brute_force"
    /\ ret.op = "search"
    /\ ret.k < index.size
    /\ Len(ret.results) = ret.k
    /\ \E c \in Stored :
          /\ \A i \in 1..Len(ret.results) : ret.results[i][1] # c
          /\ cosine_similarity(normalize_vector(ret.vec), index.vectors[c])
                = ret.results[Len(ret.results)][2]

\* C11: for every algorithm, the similarity scores of the list a search
\* returned are non-increasing from first to last.
C11_SimilaritiesNonIncreasing ==
    ret.op = "search" =>
        \A i \in 1..Len(ret.results), j \in 1..Len(ret.results) :
            i < j => ret.results[i][2] >= ret.results[j][2]

\* A search has returned two results of different similarity.
C11_Witness ==
    /\ ret.op = "search"
    /\ Len(ret.results) = 2
    /\ ret.results[1][2] > ret.results[2][2]

\* The vector stored for c is not the zero vector.
NonZero(ix, c) == ~AllCloseZero(ix.vectors[c])

\* search(v, 1), for the vector v stored for c, can only return one result
\* whose stored vector is v, with similarity 1.0.
FindsItself(ix, c) ==
    \A r \in search(ix, ix.vectors[c], 1) :
        /\ Len(r) = 1
        /\ r[1][1] \in DOMAIN ix.vectors
        /\ ix.vectors[r[1][1]] = ix.vectors[c]
        /\ r[1][2] = Scale * Scale

\* C12: in every state reached by adds and removes, search(v, 1) for the
\* vector v stored for some id returns a single result whose stored vector is
\* v, with similarity 1.0 (stated here for the non-zero stored vectors only:
\* the zero vector has similarity 0.0 to everything, itself included).
C12_StoredVectorFindsItself ==
    \A c \in Stored : NonZero(index, c) => FindsItself(index, c)

\* The stored ids whose vector is the direction of query q.
SameDirection(ix, q) ==
    {c \in DOMAIN ix.vectors : ix.vectors[c] = normalize_vector(q)}

\* C13: exact and approximate indexes agree on tiny data: when at least k
\* stored vectors equal the direction of a non-zero query, search(q, k)
\* returns k results, each a stored vector equal to that direction with
\* similarity 1.0, whatever the algorithm.
C13_TopKAllExactMatches ==
    \A q \in Queries, k \in 1..MaxK :
        (~AllCloseZero(q) /\ Cardinality(SameDirection(index, q)) >= k) =>
            \A r \in search(index, q, k) :
                /\ Len(r) = k
                /\ \A i \in 1..Len(r) :
                      r[i][1] \in SameDirection(index, q) /\ r[i][2] = Scale * Scale

\* No table of the LSH instance has a bucket under the signature of query q.
NoBucketMatches(ix, q) ==
    \A t \in 1..ix.num_tables :
        hash_vector(ix, t, normalize_vector(q)) \notin DOMAIN ix.hash_tables[t]

\* The similarities of a result list, in its order.
Similarities(r) == [i \in 1..Len(r) |-> r[i][2]]

\* The similarities of the exact top k over all stored vectors.
ExactTopK(ix, q, k) ==
    Similarities(Take(SortBySimilarityDesc(
        Scored(ix, normalize_vector(q), ix.keys)), k))

\* C14: an LSH search with k >= 1 on an instance that stores some vector
\* returns at least one result, and when no bucket of any table matches the
\* query it returns the exact top k over all stored vectors.
C14_LshNeverEmpty ==
    (index.alg = "lsh" /\ Stored # {}) =>
        \A q \in Queries, k \in 1..MaxK : \A r \in search(index, q, k) :
            /\ Len(r) >= 1
            /\ NoBucketMatches(index, q) =>
                  Similarities(r) = ExactTopK(index, q, k)

\* C15: an index instance is created only by an add that targets its key:
\* query, build_library_index, get_library_stats, remove_chunk and
\* remove_library_index never add a key to the registry.
C15_OnlyAddCreatesInstances ==
    [][ret'.op \in {"query", "build_library_index", "get_library_stats",
                    "remove_chunk", "remove_library_index"}
          => DOMAIN library_indexes' \subseteq DOMAIN library_indexes]_vars

\* C16: on a library that has no index instance, query returns [],
\* get_library_stats reports size 0 and no error, and remove_library_index
\* reports that nothing was removed.
C16_UnknownLibraryGivesEmptyForms ==
    [][TypesOf(library_indexes, ret'.library_id) = {} =>
          /\ ret'.op = "query" => ret'.value = <<>>
          /\ ret'.op = "get_library_stats" =>
                /\ "error" \notin DOMAIN ret'.value
                /\ ret'.value.total_chunks = 0
          /\ ret'.op = "remove_library_index" => ret'.value = FALSE]_vars

\* C17: a call addressed to one library leaves every instance keyed by
\* another library in the registry and unchanged, also when both libraries
\* use the same chunk ids.
C17_OtherLibrariesUnchanged ==
    [][\A key \in DOMAIN library_indexes :
          key[1] # ret'.library_id =>
             /\ key \in DOMAIN library_indexes'
             /\ library_indexes'[key] = library_indexes[key]]_vars

\* The indexes of a library that stored a chunk id have just been dropped
\* while another library stores the same chunk id, which a query of that
\* library for its vector still returns with similarity 1.0.
C17_Witness ==
    /\ ret.op = "remove_library_index"
    /\ ret.value
    /\ \E key \in DOMAIN library_indexes, c \in ChunkIds :
          /\ key[1] # ret.library_id
          /\ c \in DOMAIN library_indexes[key].vectors
          /\ library_indexes[key].size = 1
          /\ \A r \in search(library_indexes[key], library_indexes[key].vectors[c], 1) :
                r = << <<c, Scale * Scale>> >>

\* C18: when delete_library has deleted a library, the registry holds no
\* index instance keyed by that library.
C18_DeletedLibraryHasNoIndexes ==
    [][(ret'.op = "delete_library" /\ ret'.value)
          => TypesOf(library_indexes', ret'.library_id) = {}]_vars

\* The add of chunk_id that took ix to ix2 was applied in full: the id is
\* stored and counted, and each of its edges has its reverse.
FullyApplied(ix, ix2, chunk_id) ==
    /\ chunk_id \in DOMAIN ix2.vectors
    /\ ix2.size = ix.size + 1
    /\ \A l \in DOMAIN ix2.connections[chunk_id] :
          \A n \in ix2.connections[chunk_id][l] : chunk_id \in Neighbours(ix2, n, l)

\* C19: an add or remove that fails with an error is all-or-nothing: when
\* the error reaches the caller the instance is as it was before the call,
\* or the whole mutation has been applied.
C19_FailedCallIsAllOrNothing ==
    [][(ret'.op \in {"add", "remove"} /\ ret'.raised)
          => \/ index' = index
             \/ FullyApplied(index, index', ret'.id)]_vars

\* The call that took the registry reg to reg2 stored nothing: each
\* instance is as it was, and an instance that is new is empty.
StoredNothing(reg, reg2) ==
    \A key \in DOMAIN reg2 :
        IF key \in DOMAIN reg THEN reg2[key] = reg[key]
        ELSE reg2[key].size = 0 /\ DOMAIN reg2[key].vectors = {}

\* C20: an add whose vector length differs from the index dimension is
\* rejected as an error surfaced to the caller, never reported as success,
\* and it stores nothing in any instance.
C20_DimensionMismatchIsSurfaced ==
    [][(/\ ret'.op = "create_chunk"
        /\ ret'.value.embedding_dimension \notin {0, Dimension})
          => /\ ret'.value.raised
             /\ StoredNothing(library_indexes, library_indexes')]_vars

\* Two instances of the registry that are of the same algorithm and have
\* received the same adds in the same order.
Twins(reg) ==
    {p \in (DOMAIN reg) \X (DOMAIN reg) :
        /\ p[1][2] = p[2][2]
        /\ p[1][1] # p[2][1]
        /\ reg[p[1]].vectors = reg[p[2]].vectors}

\* C21: two freshly constructed instances of the same algorithm that receive
\* the same adds in the same order have identical stats and return
\* identical search results for every query, however the construction of
\* and the calls on the instances of the process are interleaved.
C21_SameAddsSameStatsAndResults ==
    \A p \in Twins(library_indexes) :
        /\ get_index_stats(library_indexes[p[1]])
              = get_index_stats(library_indexes[p[2]])
        /\ \A q \in Queries, k \in 1..MaxK :
              search(library_indexes[p[1]], q, k)
                 = search(library_indexes[p[2]], q, k)

RECURSIVE KeptHits(_, _)
KeptHits(hits, kept) ==
    IF Len(hits) = 0 THEN <<>>
    ELSE (IF Head(kept) THEN <<Head(hits)>> ELSE <<>>)
            \o KeptHits(Tail(hits), Tail(kept))

\* C23: what search_by_embedding returns is exactly the subsequence of the
\* registry's ranked list of <<chunk_id, similarity>> whose chunks were in
\* the store when they were fetched: a missing or failing chunk is dropped
\* on its own, the others keep their order and scores, nothing is raised.
C23_ResultIsPresentSubsequence ==
    ret.op = "search_by_embedding"
        => ret.value.results = KeptHits(ret.value.hits, ret.value.kept)

\* A search whose first hit was gone at its fetch and whose second was kept.
C23_Witness ==
    /\ ret.op = "search_by_embedding"
    /\ ret.value.kept = <<FALSE, TRUE>>
    /\ Len(ret.value.results) = 1
    /\ ret.value.hits[1][1] \notin DOMAIN chunks

\* C24: when the embedding provider fails for a text query, by an error
\* status or by an exception, search_by_text returns the empty list: it does
\* not raise and it queries the index with no substitute vector.
C24_EmbeddingFailureGivesEmpty ==
    (ret.op = "search_by_text" /\ ret.value.provider \in {"error_status", "exception"})
        => /\ ~ret.value.raised
           /\ ret.value.query_embedding = <<>>
           /\ ret.value.results = <<>>

\* C25: when startup_reindex has finished on an empty registry, the default
\* instance of every library of the store holds every chunk of the library
\* that is indexed and has a stored embedding, whatever the number of
\* libraries and chunks; a library that fails does not stop the others.
C25_RehydrationComplete ==
    Started =>
        \A c \in DOMAIN chunks :
            (/\ chunks[c].is_indexed
             /\ chunks[c].embedding # <<>>
             /\ chunks[c].library_id \in libraries \ ret.value.failing)
                => LET key == IndexKey(chunks[c].library_id, DefaultIndexType)
                   IN /\ key \in DOMAIN library_indexes
                      /\ c \in DOMAIN library_indexes[key].vectors

SearchRaises(ix) ==
    /\ DOMAIN ix.vectors # {}
    /\ ix.entry_point # None
    /\ \/ ix.entry_point \notin DOMAIN ix.levels
       \/ ix.entry_point \notin DOMAIN ix.vectors

\* A sequence without a repeated element.
Distinct(s) == \A i, j \in 1..Len(s) : s[i] = s[j] => i = j

\* C27: on every state of an HNSW instance reached by adds, re-adds and
\* removes, a search does not raise and returns: the greedy walk at a level
\* ends within as many moves as there are stored nodes, from any stored
\* node, and the level-0 expansion lists each node at most once.
C27_SearchTerminatesWithoutRaising ==
    (index.alg = "hnsw" /\ Stored # {}) =>
        /\ ~SearchRaises(index)
        /\ \A q \in Queries, n \in Stored :
              \A level \in DOMAIN index.connections[n] :
                  None \notin GreedyWalk(index, normalize_vector(q), n, level,
                                         Cardinality(Stored))
        /\ \A n \in Stored :
              \A c \in _get_level_candidates(index, <<n>>, {}, <<>>, MaxK * 3) :
                  Distinct(c)

\* A search returned on a graph that has a cycle (two stored nodes that are
\* each other's neighbour) and an edge left pointing at a removed node.
C27_Witness ==
    /\ index.alg = "hnsw"
    /\ ret.op = "search"
    /\ Len(ret.results) >= 1
    /\ \E n, m \in Stored, l \in Levels :
          /\ n # m
          /\ m \in Neighbours(index, n, l)
          /\ n \in Neighbours(index, m, l)
    /\ \E n \in Stored, l \in Levels : Neighbours(index, n, l) \ Stored # {}

\* The chunk ids of a result list, in its order.
ResultIds(results) == [i \in 1..Len(results) |-> results[i][1]]

\* C28: a search with k >= 1 on an HNSW instance that stores a vector
\* returns at least one and at most k results, their chunk ids pairwise
\* distinct and all stored in the instance.
C28_SearchReturnsStoredDistinctIds ==
    (index.alg = "hnsw" /\ Stored # {}) =>
        \A q \in Queries, k \in 1..MaxK :
            \A results \in search(index, q, k) :
                /\ Len(results) \in 1..k
                /\ Distinct(ResultIds(results))
                /\ \A i \in 1..Len(results) : results[i][1] \in Stored

\* A search with k = 2 on an instance that stores two vectors or more
\* returned one result: the node it ended on had only an edge left pointing
\* at a removed node, which the expansion followed and the scoring dropped.
C28_Witness ==
    /\ index.alg = "hnsw"
    /\ ret.op = "search"
    /\ ret.k = 2
    /\ Cardinality(Stored) >= 2
    /\ Len(ret.results) = 1
    /\ Neighbours(index, ret.results[1][1], 0) \ Stored # {}

\* One of the index instances holds chunk id c.
Indexed(c) ==
    \E key \in DOMAIN library_indexes : c \in DOMAIN library_indexes[key].vectors

\* C29: once delete_chunk(c) has returned success and no chunk operation is
\* in flight, however it interleaved with update_chunk_text(c, text), no
\* index instance contains c.
C29_DeletedChunkLeavesIndexes ==
    (/\ ret.op = "delete_chunk"
     /\ ret.value.deleted
     /\ \A t \in Tasks : tasks[t].pc = "idle")
        => ~Indexed(ret.value.chunk_id)

\* C30: after update_chunk_text(c, text) has returned a chunk, whether the
\* embedding of text was generated or not, the default index of the chunk's
\* library holds c if and only if the store records c as is_indexed, and
\* the vector it holds is the embedding the call obtained for text.
C30_UpdateAlignsIndexWithStore ==
    (/\ ret.op = "update_chunk_text"
     /\ ret.value.updated
     /\ \A t \in Tasks : tasks[t].pc = "idle")
        => LET c == ret.value.chunk_id
               key == IndexKey(ret.library_id, DefaultIndexType)
               held == /\ key \in DOMAIN library_indexes
                       /\ c \in DOMAIN library_indexes[key].vectors
           IN /\ held <=> chunks[c].is_indexed
              /\ held => library_indexes[key].vectors[c]
                            = normalize_vector(ret.value.embedding)

====
